---- MODULE Spec2Model ----
(***************************************************************************)
(* A model of the ray tracer: the axis-aligned bounding box (aabb.rs), the *)
(* sphere and the moving sphere (sphere.rs, moving_sphere.rs), the flat    *)
(* list aggregate (hittable_list.rs), the bounding volume hierarchy        *)
(* (bvh_v3.rs), the vector operations (vec3.rs), the materials             *)
(* (material.rs) and the integrator ray_colour (main.rs).                  *)
(* Square roots are taken only of numbers whose root is a fraction.        *)
(*                                                                         *)
(* Numbers.  The program computes in f64.  A number of the model is a      *)
(* record [k, s, n, d]: k is "fin", "inf" or "nan", s is the sign bit      *)
(* (TRUE = negative, so that -0.0 and -inf exist), and n/d is the          *)
(* magnitude of a finite number as a reduced fraction.  Finite arithmetic  *)
(* is exact (the inputs are small integers, for which f64 is exact up to   *)
(* the rounding of a quotient); the special values follow IEEE-754:        *)
(* x/0 = +-inf, 0/0 = 0*inf = inf-inf = NaN, every ordered comparison with *)
(* NaN is false, -0.0 = +0.0.                                              *)
(***************************************************************************)
EXTENDS Integers, Sequences, FiniteSets, TLC

VARIABLES
    box,        \* AABB::hit: the box (self)
    ray,        \* AABB::hit: the ray
    min_t,      \* AABB::hit: lower end of the search interval
    max_t,      \* AABB::hit: upper end of the search interval
    box_hit,    \* AABB::hit: the bool returned
    apc,        \* "idle" before the call, "done" after it
    s_first,    \* AABB::surrounding_box: the first box
    s_second,   \* AABB::surrounding_box: the second box
    s_box,      \* AABB::surrounding_box: the box returned
    spc,        \* "idle" before the call, "done" after it
    scene,      \* the objects of the scene, the list passed to BVH::construct
    bvh,        \* what BVH::construct(scene, 0.0, 1.0) ended with: a tree or a panic
    cast,       \* the ray cast into the scene
    cast_min,   \* the interval (t_min, t_max) it was cast over
    cast_max,
    bvh_hit,    \* what BVH::hit returned for it
    list_hit,   \* what HittableList::hit over the same objects returned for it
    bpc,        \* "new", then "built" or "panicked", then "hit"
    hit_left,   \* BVH::hit on a Branch: what the left subtree returned
    hit_right,  \* BVH::hit on a Branch: what the right subtree returned
    closer,     \* BVH::hit on a Branch: the hit returned
    cpc,        \* "idle" before the final match, "done" after it
    b_obj,      \* bounding_box: the Hittable asked for its box (self)
    b_box,      \* bounding_box: the Option<AABB> returned
    bbpc,       \* "idle" before the call, "done" after it
    h_obj,      \* Sphere::hit, MovingSphere::hit: the sphere (self)
    h_ray,      \* the ray
    h_min,      \* the interval (t_min, t_max)
    h_max,
    h_hit,      \* the Option<HitRecord> returned
    hpc,        \* "idle" before the call, "done" after it
    m_self,     \* Material::scatter: the material (self)
    m_ray,      \* the incoming ray
    m_rec,      \* the hit record
    m_in_sphere,  \* what Vec3::random_in_unit_sphere() returns during the call
    m_float,    \* what random_float() returns during the call
    m_out,      \* the Option<Scattering> returned
    mpc,        \* "idle" before the call, "done" after it
    v_first,    \* cross_product: self
    v_second,   \* cross_product: other
    v_actual,   \* what cross_product returned
    vpc,        \* "ready", "done" ("off" outside SpecCross)
    rc_world,   \* the scene ray_colour is called with
    rc_call,    \* the ray and depth of the outermost call
    rc_ray,     \* ray of the innermost call
    rc_depth,   \* depth of the innermost call
    rc_record,  \* what world.hit returned in the innermost call
    rc_pending, \* attenuations the callers multiply the result with, outermost first
    rc_colour,  \* what the outermost call returned
    rc_leaf,    \* how the innermost call returned: "depth", "absorbed" or "miss"
    rc_hits,    \* calls of world.hit made
    rc_scatters, \* calls of Material::scatter made
    rcpc,       \* "call", "hit", "done" ("off" outside SpecColour)
    tv_bvh,     \* the tree BVH::construct returned, shared by the traversals
    tv_ray,     \* per traversal: the ray of its BVH::hit call
    tv_stack,   \* per traversal: the frames of its nested BVH::hit calls, innermost last
    tv_ret,     \* per traversal: what its last finished nested call returned
    tv_result,  \* per traversal: what its outermost call returned
    tv_pc,      \* per traversal: "run" or "done"
    tv_box,     \* what BVH::bounding_box returned, None before the call
    k_list,     \* the list BVH::construct is called with
    k_stack,    \* the frames of the nested BVH::construct calls, innermost last
    k_ret,      \* what the last finished nested call returned
    k_result,   \* what the outermost call returned, None before
    k_calls,    \* BVH::construct calls entered so far
    kpc         \* "run", "done", "panicked" ("off" outside SpecConstruct)

aabbVars == <<box, ray, min_t, max_t, box_hit, apc>>
surVars == <<s_first, s_second, s_box, spc>>
bvhVars == <<scene, bvh, cast, cast_min, cast_max, bvh_hit, list_hit, bpc>>
closerVars == <<hit_left, hit_right, closer, cpc>>
boxVars == <<b_obj, b_box, bbpc>>
hitVars == <<h_obj, h_ray, h_min, h_max, h_hit, hpc>>
scatVars == <<m_self, m_ray, m_rec, m_in_sphere, m_float, m_out, mpc>>
crossVars == <<v_first, v_second, v_actual, vpc>>
colourVars == <<rc_world, rc_call, rc_ray, rc_depth, rc_record, rc_pending, rc_colour, rc_leaf, rc_hits, rc_scatters, rcpc>>
travVars == <<tv_bvh, tv_ray, tv_stack, tv_ret, tv_result, tv_pc, tv_box>>
consVars == <<k_list, k_stack, k_ret, k_result, k_calls, kpc>>

vars == <<aabbVars, surVars, bvhVars, closerVars, boxVars, hitVars, scatVars, crossVars, colourVars, travVars, consVars>>

-----------------------------------------------------------------------------
(* f64 *)

RECURSIVE Gcd(_, _)
Gcd(a, b) == IF b = 0 THEN a ELSE Gcd(b, a % b)

Abs(i) == IF i < 0 THEN -i ELSE i

NaN == [k |-> "nan", s |-> FALSE, n |-> 0, d |-> 1]
PInf == [k |-> "inf", s |-> FALSE, n |-> 0, d |-> 1]
NInf == [k |-> "inf", s |-> TRUE, n |-> 0, d |-> 1]
Inf(sign) == IF sign THEN NInf ELSE PInf

\* the finite number (-1)^sign * num/den, num >= 0, den > 0
Fin(sign, num, den) ==
    LET g == Gcd(num, den)
    IN  IF num = 0 THEN [k |-> "fin", s |-> sign, n |-> 0, d |-> 1]
        ELSE [k |-> "fin", s |-> sign, n |-> num \div g, d |-> den \div g]

\* the f64 of an integer literal, and of a fraction of integers (q > 0)
F(i) == Fin(i < 0, Abs(i), 1)
Q(p, q) == Fin(p < 0, Abs(p), q)
NegZero == Fin(TRUE, 0, 1)

IsNaN(x) == x.k = "nan"
IsInf(x) == x.k = "inf"
IsFin(x) == x.k = "fin"
IsZero(x) == x.k = "fin" /\ x.n = 0

\* signed numerator of a finite number
Num(x) == IF x.s THEN -x.n ELSE x.n

FNeg(x) == IF IsNaN(x) THEN NaN ELSE [x EXCEPT !.s = ~x.s]

FAdd(x, y) ==
    IF IsNaN(x) \/ IsNaN(y) THEN NaN
    ELSE IF IsInf(x) /\ IsInf(y) THEN (IF x.s = y.s THEN x ELSE NaN)
    ELSE IF IsInf(x) THEN x
    ELSE IF IsInf(y) THEN y
    ELSE LET num == Num(x) * y.d + Num(y) * x.d
         IN  IF num = 0 THEN Fin(x.s /\ y.s, 0, 1)
             ELSE Fin(num < 0, Abs(num), x.d * y.d)

FSub(x, y) == FAdd(x, FNeg(y))

FMul(x, y) ==
    IF IsNaN(x) \/ IsNaN(y) THEN NaN
    ELSE IF (IsInf(x) /\ IsZero(y)) \/ (IsZero(x) /\ IsInf(y)) THEN NaN
    ELSE IF IsInf(x) \/ IsInf(y) THEN Inf(x.s # y.s)
    ELSE Fin(x.s # y.s, x.n * y.n, x.d * y.d)

FDiv(x, y) ==
    IF IsNaN(x) \/ IsNaN(y) THEN NaN
    ELSE IF (IsInf(x) /\ IsInf(y)) \/ (IsZero(x) /\ IsZero(y)) THEN NaN
    ELSE IF IsInf(x) \/ IsZero(y) THEN Inf(x.s # y.s)
    ELSE IF IsInf(y) THEN Fin(x.s # y.s, 0, 1)
    ELSE Fin(x.s # y.s, x.n * y.d, x.d * y.n)

\* x < y, false when either is NaN
FLt(x, y) ==
    IF IsNaN(x) \/ IsNaN(y) THEN FALSE
    ELSE IF IsInf(x) THEN x.s /\ ~(IsInf(y) /\ y.s)
    ELSE IF IsInf(y) THEN ~y.s
    ELSE Num(x) * y.d < Num(y) * x.d

FGt(x, y) == FLt(y, x)

\* x == y, false when either is NaN, true for -0.0 and +0.0
FEq(x, y) ==
    IF IsNaN(x) \/ IsNaN(y) THEN FALSE
    ELSE IF IsInf(x) \/ IsInf(y) THEN IsInf(x) /\ IsInf(y) /\ x.s = y.s
    ELSE Num(x) * y.d = Num(y) * x.d

FLe(x, y) == FLt(x, y) \/ FEq(x, y)

\* f64::min and f64::max: the other operand when one is NaN
FMin(x, y) == IF IsNaN(x) THEN y ELSE IF IsNaN(y) THEN x ELSE IF FLt(y, x) THEN y ELSE x
FMax(x, y) == IF IsNaN(x) THEN y ELSE IF IsNaN(y) THEN x ELSE IF FLt(x, y) THEN y ELSE x

-----------------------------------------------------------------------------
(* Vec3, Ray *)

Vec3_new(x, y, z) == [x |-> x, y |-> y, z |-> z]

\* the vector of three integer coordinates
V(i, j, l) == Vec3_new(F(i), F(j), F(l))

Vec3_add(a, b) == Vec3_new(FAdd(a.x, b.x), FAdd(a.y, b.y), FAdd(a.z, b.z))
Vec3_sub(a, b) == Vec3_new(FSub(a.x, b.x), FSub(a.y, b.y), FSub(a.z, b.z))
Vec3_scale(a, t) == Vec3_new(FMul(a.x, t), FMul(a.y, t), FMul(a.z, t))

\* vec3 * vec3
Vec3_mul(a, b) == Vec3_new(FMul(a.x, b.x), FMul(a.y, b.y), FMul(a.z, b.z))

\* Ray::new with time: None, which stores time 0.0
Ray_new(origin, direction) == [origin |-> origin, direction |-> direction, time |-> F(0)]

\* Ray::new with time: Some(time)
Ray_new_at(origin, direction, time) == [origin |-> origin, direction |-> direction, time |-> time]

Ray_at(r, t) == Vec3_add(r.origin, Vec3_scale(r.direction, t))

\* the coordinate of a vector on a dimension: 0 -> x, 1 -> y, otherwise z
Coord(v, dimension) == IF dimension = 0 THEN v.x ELSE IF dimension = 1 THEN v.y ELSE v.z

-----------------------------------------------------------------------------
(* AABB *)

AABB_new(minimum, maximum) == [minimum |-> minimum, maximum |-> maximum]

\* SlabInterval without the swap of t0 and t1 for a negative inv_d
SlabInterval_noswap(self, r, dimension) ==
    LET inv_d == FDiv(F(1), Coord(r.direction, dimension))
        t0 == FMul(FSub(Coord(self.minimum, dimension), Coord(r.origin, dimension)), inv_d)
        t1 == FMul(FSub(Coord(self.maximum, dimension), Coord(r.origin, dimension)), inv_d)
    IN  <<t0, t1>>

\* SlabInterval with a zero-check: a zero direction component gives inv_d = 0
SlabInterval_zerocheck(self, r, dimension) ==
    LET d == Coord(r.direction, dimension)
        inv_d == IF IsZero(d) THEN F(0) ELSE FDiv(F(1), d)
        t0 == FMul(FSub(Coord(self.minimum, dimension), Coord(r.origin, dimension)), inv_d)
        t1 == FMul(FSub(Coord(self.maximum, dimension), Coord(r.origin, dimension)), inv_d)
    IN  IF FLt(inv_d, F(0)) THEN <<t1, t0>> ELSE <<t0, t1>>

\* the slab interval of one dimension, after the swap: <<t0, t1>>
SlabInterval(self, r, dimension) ==
    LET inv_d == FDiv(F(1), Coord(r.direction, dimension))
        t0 == FMul(FSub(Coord(self.minimum, dimension), Coord(r.origin, dimension)), inv_d)
        t1 == FMul(FSub(Coord(self.maximum, dimension), Coord(r.origin, dimension)), inv_d)
    IN  IF FLt(inv_d, F(0)) THEN <<t1, t0>> ELSE <<t0, t1>>

computeIntersection(self, r, tmin, tmax, dimension) ==
    LET t == SlabInterval(self, r, dimension)
        min_computed_t == IF FGt(t[1], tmin) THEN t[1] ELSE tmin
        max_computed_t == IF FLt(t[2], tmax) THEN t[2] ELSE tmax
    IN  IF FLe(max_computed_t, min_computed_t) THEN FALSE ELSE TRUE

AABB_hit(self, r, tmin, tmax) ==
    /\ computeIntersection(self, r, tmin, tmax, 0)
    /\ computeIntersection(self, r, tmin, tmax, 1)
    /\ computeIntersection(self, r, tmin, tmax, 2)

\* surrounding_box taking the smaller of the two maxima on the x axis
surrounding_box_minmax(first, second) ==
    LET small == Vec3_new(FMin(first.minimum.x, second.minimum.x),
                          FMin(first.minimum.y, second.minimum.y),
                          FMin(first.minimum.z, second.minimum.z))
        big == Vec3_new(FMin(first.maximum.x, second.maximum.x),
                        FMax(first.maximum.y, second.maximum.y),
                        FMax(first.maximum.z, second.maximum.z))
    IN  [minimum |-> small, maximum |-> big]

\* surrounding_box reading the z maximum of the first box alone
surrounding_box_firstonly(first, second) ==
    LET small == Vec3_new(FMin(first.minimum.x, second.minimum.x),
                          FMin(first.minimum.y, second.minimum.y),
                          FMin(first.minimum.z, second.minimum.z))
        big == Vec3_new(FMax(first.maximum.x, second.maximum.x),
                        FMax(first.maximum.y, second.maximum.y),
                        FMax(first.maximum.z, first.maximum.z))
    IN  [minimum |-> small, maximum |-> big]

surrounding_box(first, second) ==
    LET small == Vec3_new(FMin(first.minimum.x, second.minimum.x),
                          FMin(first.minimum.y, second.minimum.y),
                          FMin(first.minimum.z, second.minimum.z))
        big == Vec3_new(FMax(first.maximum.x, second.maximum.x),
                        FMax(first.maximum.y, second.maximum.y),
                        FMax(first.maximum.z, second.maximum.z))
    IN  AABB_new(small, big)

-----------------------------------------------------------------------------
(* more of f64 and Vec3 *)

\* the integer square root
ISqrt(i) == CHOOSE r \in 0..i : r * r <= i /\ (r + 1) * (r + 1) > i

\* x is a number whose square root f64 gives exactly
IsSquare(x) ==
    \/ ~IsFin(x)
    \/ x.s
    \/ ISqrt(x.n) * ISqrt(x.n) = x.n /\ ISqrt(x.d) * ISqrt(x.d) = x.d

\* f64::sqrt; exact on the numbers IsSquare accepts, the only ones it is given
FSqrt(x) ==
    IF IsNaN(x) THEN NaN
    ELSE IF IsZero(x) THEN x
    ELSE IF x.s THEN NaN
    ELSE IF IsInf(x) THEN PInf
    ELSE Fin(FALSE, ISqrt(x.n), ISqrt(x.d))

Vec3_div(a, t) == Vec3_new(FDiv(a.x, t), FDiv(a.y, t), FDiv(a.z, t))

length_squared(a) == FAdd(FAdd(FMul(a.x, a.x), FMul(a.y, a.y)), FMul(a.z, a.z))

equal_to(a, b) == FEq(a.x, b.x) /\ FEq(a.y, b.y) /\ FEq(a.z, b.z)

dot_product(a, b) == FAdd(FAdd(FMul(a.x, b.x), FMul(a.y, b.y)), FMul(a.z, b.z))

\* a cross product with the last component's terms swapped
cross_product_swapped(a, b) ==
    Vec3_new(FSub(FMul(a.y, b.z), FMul(a.z, b.y)),
             FSub(FMul(a.z, b.x), FMul(a.x, b.z)),
             FSub(FMul(a.y, b.x), FMul(a.x, b.y)))

\* Vec3::cross_product
cross_product(a, b) ==
    Vec3_new(FSub(FMul(a.y, b.z), FMul(a.z, b.y)),
             FSub(FMul(a.z, b.x), FMul(a.x, b.z)),
             FSub(FMul(a.x, b.y), FMul(a.y, b.x)))

-----------------------------------------------------------------------------
(* Option, HitRecord *)

None == [some |-> FALSE, val |-> "none"]
Some(x) == [some |-> TRUE, val |-> x]

\* u and v (acos and atan2 of the normal) are not part of the model
HitRecord_new(point, normal, t, front_face, material) ==
    [point |-> point, normal |-> normal, t |-> t, front_face |-> front_face,
     material |-> material]

set_face_normal(self, r, outward_normal) ==
    LET front_face == FLt(dot_product(r.direction, outward_normal), F(0))
    IN  [self EXCEPT !.front_face = front_face,
                     !.normal = IF front_face THEN outward_normal
                                ELSE Vec3_scale(outward_normal, F(-1))]

-----------------------------------------------------------------------------
(* Sphere *)

Sphere_new(center, radius, material) ==
    [kind |-> "Sphere", center |-> center, radius |-> radius, material |-> material]

\* the discriminant of the ray/sphere quadratic, b * b - a * c
discriminant(a, b, c) == FSub(FMul(b, b), FMul(a, c))

\* get_first_root_in_range accepting a root on either end of the interval
get_first_root_in_range_closed(a, b, c, min, max) ==
    LET discrim_sqrt == FSqrt(discriminant(a, b, c))
        root1 == FDiv(FSub(FNeg(b), discrim_sqrt), a)
        root2 == FDiv(FAdd(FNeg(b), discrim_sqrt), a)
    IN  IF FLt(discriminant(a, b, c), F(0)) THEN None
        ELSE IF FLe(min, root1) /\ FLe(root1, max) THEN Some(root1)
        ELSE IF FLe(min, root2) /\ FLe(root2, max) THEN Some(root2)
        ELSE None

get_first_root_in_range(a, b, c, min, max) ==
    LET discrim_sqrt == FSqrt(discriminant(a, b, c))
        root1 == FDiv(FSub(FNeg(b), discrim_sqrt), a)
        root2 == FDiv(FAdd(FNeg(b), discrim_sqrt), a)
    IN  IF FLt(discriminant(a, b, c), F(0)) THEN None
        ELSE IF FGt(root1, min) /\ FLt(root1, max) THEN Some(root1)
        ELSE IF FGt(root2, min) /\ FLt(root2, max) THEN Some(root2)
        ELSE None

\* a, half_b and c of Sphere::hit
Sphere_quadratic(self, r) ==
    LET origin_to_center == Vec3_sub(r.origin, self.center)
    IN  [a |-> length_squared(r.direction),
         half_b |-> dot_product(origin_to_center, r.direction),
         c |-> FSub(length_squared(origin_to_center), FMul(self.radius, self.radius))]

\* the end of Sphere::hit and of MovingSphere::hit: None without a root, else
\* the record of the hit at the root, for the sphere's center (at the ray's
\* time), radius and material
hit_at_root(center, radius, material, r, root) ==
    LET t == root.val
        point == Ray_at(r, t)
        outward_normal == Vec3_div(Vec3_sub(point, center), radius)
        record == HitRecord_new(point, outward_normal, t, FALSE, material)
    IN  IF ~root.some THEN None
        ELSE Some(set_face_normal(record, r, outward_normal))

Sphere_hit(self, r, t_min, t_max) ==
    LET q == Sphere_quadratic(self, r)
    IN  hit_at_root(self.center, self.radius, self.material, r,
                    get_first_root_in_range(q.a, q.half_b, q.c, t_min, t_max))

Sphere_bounding_box(self, t0, t1) ==
    LET radius == Vec3_new(self.radius, self.radius, self.radius)
    IN  Some(AABB_new(Vec3_sub(self.center, radius), Vec3_add(self.center, radius)))

-----------------------------------------------------------------------------
(* MovingSphere *)

MovingSphere_new(center_0, time_0, center_1, time_1, radius, material) ==
    [kind |-> "MovingSphere", center_0 |-> center_0, time_0 |-> time_0,
     center_1 |-> center_1, time_1 |-> time_1, radius |-> radius, material |-> material]

\* the centre at a time: linear from center_0 at time_0 to center_1 at time_1
MovingSphere_center(self, time) ==
    Vec3_add(self.center_0,
             Vec3_scale(Vec3_sub(self.center_1, self.center_0),
                        FDiv(FSub(time, self.time_0), FSub(self.time_1, self.time_0))))

\* a, half_b and c of MovingSphere::hit
MovingSphere_quadratic(self, r) ==
    LET origin_to_center == Vec3_sub(r.origin, MovingSphere_center(self, r.time))
    IN  [a |-> length_squared(r.direction),
         half_b |-> dot_product(origin_to_center, r.direction),
         c |-> FSub(length_squared(origin_to_center), FMul(self.radius, self.radius))]

\* MovingSphere::hit: the code of Sphere::hit with center(ray.time) for center
\* (MovingSphere::get_first_root_in_range is a copy of Sphere's)
MovingSphere_hit(self, r, t_min, t_max) ==
    LET q == MovingSphere_quadratic(self, r)
    IN  hit_at_root(MovingSphere_center(self, r.time), self.radius, self.material, r,
                    get_first_root_in_range(q.a, q.half_b, q.c, t_min, t_max))

MovingSphere_bounding_box(self, t0, t1) ==
    LET radius == Vec3_new(self.radius, self.radius, self.radius)
        t0_center == MovingSphere_center(self, t0)
        t1_center == MovingSphere_center(self, t1)
        first_box == AABB_new(Vec3_sub(t0_center, radius), Vec3_add(t0_center, radius))
        second_box == AABB_new(Vec3_sub(t1_center, radius), Vec3_add(t1_center, radius))
    IN  Some(surrounding_box(first_box, second_box))

-----------------------------------------------------------------------------
(* Hittable: Sphere, MovingSphere, HittableList and BVH *)

HittableList_new(objects) == [kind |-> "HittableList", objects |-> objects]

Leaf(t) == [kind |-> "Leaf", obj |-> t]

Branch(left, right, bounding_box) ==
    [kind |-> "Branch", left |-> left, right |-> right, bounding_box |-> bounding_box]

\* a panic!(msg) leaving BVH::construct
Panic(msg) == [kind |-> "panic", msg |-> msg]

RECURSIVE Hittable_hit(_, _, _, _)
RECURSIVE Hittable_bounding_box(_, _, _)

\* a loop that never narrows the interval: the last object hit wins
RECURSIVE HittableList_hit_last(_, _, _, _, _, _)
HittableList_hit_last(objects, i, r, t_min, closest_so_far, result) ==
    IF i > Len(objects) THEN result
    ELSE LET hit == Hittable_hit(objects[i], r, t_min, closest_so_far)
         IN  IF hit.some
             THEN HittableList_hit_last(objects, i + 1, r, t_min, closest_so_far, hit)
             ELSE HittableList_hit_last(objects, i + 1, r, t_min, closest_so_far, result)

\* the loop of HittableList::hit from the i-th object on
RECURSIVE HittableList_hit_from(_, _, _, _, _, _)
HittableList_hit_from(objects, i, r, t_min, closest_so_far, result) ==
    IF i > Len(objects) THEN result
    ELSE LET hit == Hittable_hit(objects[i], r, t_min, closest_so_far)
         IN  IF hit.some
             THEN HittableList_hit_from(objects, i + 1, r, t_min, hit.val.t, hit)
             ELSE HittableList_hit_from(objects, i + 1, r, t_min, closest_so_far, result)

HittableList_hit(self, r, t_min, t_max) ==
    HittableList_hit_from(self.objects, 1, r, t_min, t_max, None)

\* the loop of HittableList::bounding_box from the i-th object on
RECURSIVE HittableList_box_from(_, _, _, _, _)
HittableList_box_from(objects, i, t0, t1, result_box) ==
    IF i > Len(objects) THEN result_box
    ELSE LET output_box == Hittable_bounding_box(objects[i], t0, t1)
         IN  IF ~output_box.some THEN None
             ELSE IF ~result_box.some
             THEN HittableList_box_from(objects, i + 1, t0, t1, output_box)
             ELSE HittableList_box_from(objects, i + 1, t0, t1,
                      Some(surrounding_box(result_box.val, output_box.val)))

HittableList_bounding_box(self, t0, t1) ==
    IF Len(self.objects) = 0 THEN None
    ELSE HittableList_box_from(self.objects, 1, t0, t1, None)

\* the final match of BVH::hit on a Branch: "return the closer object hit"
closer_hit(left_hit, right_hit) ==
    IF ~left_hit.some /\ ~right_hit.some THEN None
    ELSE IF ~left_hit.some THEN right_hit
    ELSE IF ~right_hit.some THEN left_hit
    ELSE IF FLt(left_hit.val.t, right_hit.val.t) THEN left_hit
    ELSE right_hit

RECURSIVE BVH_hit(_, _, _, _)
BVH_hit(self, r, t_min, t_max) ==
    IF self.kind = "Leaf" THEN Hittable_hit(self.obj, r, t_min, t_max)
    ELSE IF ~AABB_hit(self.bounding_box, r, t_min, t_max) THEN None
    ELSE LET left_hit == BVH_hit(self.left, r, t_min, t_max)
             end == IF left_hit.some THEN left_hit.val.t ELSE t_max
             right_hit == BVH_hit(self.right, r, t_min, end)
         IN  closer_hit(left_hit, right_hit)

BVH_bounding_box(self, t0, t1) ==
    IF self.kind = "Leaf" THEN Hittable_bounding_box(self.obj, t0, t1)
    ELSE Some(self.bounding_box)

\* dynamic dispatch of Hittable::hit
Hittable_hit(self, r, t_min, t_max) ==
    IF self.kind = "Sphere" THEN Sphere_hit(self, r, t_min, t_max)
    ELSE IF self.kind = "MovingSphere" THEN MovingSphere_hit(self, r, t_min, t_max)
    ELSE IF self.kind = "HittableList" THEN HittableList_hit(self, r, t_min, t_max)
    ELSE BVH_hit(self, r, t_min, t_max)

\* dynamic dispatch of Hittable::bounding_box
Hittable_bounding_box(self, t0, t1) ==
    IF self.kind = "Sphere" THEN Sphere_bounding_box(self, t0, t1)
    ELSE IF self.kind = "MovingSphere" THEN MovingSphere_bounding_box(self, t0, t1)
    ELSE IF self.kind = "HittableList" THEN HittableList_bounding_box(self, t0, t1)
    ELSE BVH_bounding_box(self, t0, t1)

-----------------------------------------------------------------------------
(* BVH::construct *)

\* the values rng.gen_range(min..max) can return
random_int_in_range(min, max) == min..(max - 1)

\* the key the comparator of list.sort_by reads: minimum corner on the axis
sort_key(obj, axis, t0, t1) == Coord(Hittable_bounding_box(obj, t0, t1).val.minimum, axis)

\* obj placed into a sorted list behind every element that is not Greater
RECURSIVE sort_insert(_, _, _, _, _)
sort_insert(sorted, obj, axis, t0, t1) ==
    IF sorted = <<>> THEN <<obj>>
    ELSE LET last == sorted[Len(sorted)]
             left_val == sort_key(last, axis, t0, t1)
             right_val == sort_key(obj, axis, t0, t1)
         IN  IF FLt(left_val, right_val) \/ FEq(left_val, right_val)
             THEN Append(sorted, obj)
             ELSE Append(sort_insert(SubSeq(sorted, 1, Len(sorted) - 1), obj, axis, t0, t1), last)

\* a sort_by that leaves the list as it was
sort_by_nothing(list, axis, t0, t1) == list

\* list.sort_by(...): a stable sort by sort_key
RECURSIVE sort_by(_, _, _, _)
sort_by(list, axis, t0, t1) ==
    IF list = <<>> THEN <<>>
    ELSE sort_insert(sort_by(SubSeq(list, 1, Len(list) - 1), axis, t0, t1),
                     list[Len(list)], axis, t0, t1)

\* a Branch that caches the box of its left child alone
construct_branch_left_box(left, right, t0, t1) ==
    IF right.kind = "panic" THEN right
    ELSE IF left.kind = "panic" THEN left
    ELSE LET left_box == BVH_bounding_box(left, t0, t1)
             right_box == BVH_bounding_box(right, t0, t1)
         IN  IF left_box.some /\ right_box.some
             THEN Branch(left, right, left_box.val)
             ELSE Panic("No bounding box in BVH node")

\* the Branch made of two constructed children, or the panic that prevents it
construct_branch(left, right, t0, t1) ==
    IF right.kind = "panic" THEN right
    ELSE IF left.kind = "panic" THEN left
    ELSE LET left_box == BVH_bounding_box(left, t0, t1)
             right_box == BVH_bounding_box(right, t0, t1)
         IN  IF left_box.some /\ right_box.some
             THEN Branch(left, right, surrounding_box(left_box.val, right_box.val))
             ELSE Panic("No bounding box in BVH node")

RECURSIVE BVH_construct(_, _, _)

\* BVH::construct with the empty list falling into the branch of one object,
\* where list.pop().unwrap() panics
BVH_construct_unwrap(list, t0, t1) ==
    LET span == Len(list)
    IN  IF span = 0
        THEN { Panic("called Option::unwrap() on a None value") }
        ELSE IF span = 1 THEN { Leaf(list[span]) }
        ELSE IF \E i \in 1..span : ~Hittable_bounding_box(list[i], t0, t1).some
        THEN { Panic("No bounding box in BVH node") }
        ELSE UNION { LET sorted == sort_by(list, axis, t0, t1)
                     IN  { construct_branch(left, right, t0, t1) :
                             right \in BVH_construct(SubSeq(sorted, span \div 2 + 1, span), t0, t1),
                             left \in BVH_construct(SubSeq(sorted, 1, span \div 2), t0, t1) } :
                     axis \in random_int_in_range(0, 3) }

\* every outcome of BVH::construct(list, t0, t1), one for each way the axes can
\* be drawn: a tree, or the panic that ends the call
BVH_construct(list, t0, t1) ==
    LET span == Len(list)
    IN  IF span = 0
        THEN { Panic("Cannot have 0 objects in list during BVH construction") }
        ELSE IF span = 1 THEN { Leaf(list[span]) }
        ELSE IF \E i \in 1..span : ~Hittable_bounding_box(list[i], t0, t1).some
        THEN { Panic("No bounding box in BVH node") }
        ELSE UNION { LET sorted == sort_by(list, axis, t0, t1)
                     IN  { construct_branch(left, right, t0, t1) :
                             right \in BVH_construct(SubSeq(sorted, span \div 2 + 1, span), t0, t1),
                             left \in BVH_construct(SubSeq(sorted, 1, span \div 2), t0, t1) } :
                     axis \in random_int_in_range(0, 3) }

-----------------------------------------------------------------------------
(* more of Vec3: length, unit_vector, the random vectors, reflect, refract *)

FAbs(x) == IF IsNaN(x) THEN NaN ELSE [x EXCEPT !.s = FALSE]

\* f64::powi(5)
FPow5(x) == FMul(FMul(FMul(FMul(x, x), x), x), x)

Vec3_length(a) == FSqrt(length_squared(a))

unit_vector(a) == Vec3_div(Vec3_new(a.x, a.y, a.z), Vec3_length(a))

\* 1e-8
NearZeroMin == Q(1, 100000000)

near_zero(a) ==
    /\ FLt(FAbs(a.x), NearZeroMin)
    /\ FLt(FAbs(a.y), NearZeroMin)
    /\ FLt(FAbs(a.z), NearZeroMin)

\* values random_float() can return: numbers of [0, 1)
random_float == { F(0), Q(1, 1000), Q(1, 2), Q(99, 100) }

\* values Vec3::random_in_unit_sphere() can return: vectors with components in
\* [-1, 1) and length_squared < 1 (here of length 1/2 or 4/5, so that the
\* length of each has an exact square root)
random_in_unit_sphere ==
    { Vec3_new(Q(1, 2), F(0), F(0)), Vec3_new(F(0), Q(1, 2), F(0)),
      Vec3_new(F(0), Q(-1, 2), F(0)), Vec3_new(F(0), F(0), Q(-1, 2)),
      Vec3_new(Q(3, 10), Q(2, 5), F(0)), Vec3_new(F(0), F(0), Q(4, 5)) }

\* the reflection that doubles nothing: vector - normal * dot(vector, normal)
Vec3_reflect_once(vector, normal) ==
    Vec3_sub(vector, Vec3_scale(normal, dot_product(vector, normal)))

Vec3_reflect(vector, normal) ==
    LET x == FMul(dot_product(vector, normal), F(2))
    IN  Vec3_sub(vector, Vec3_scale(normal, x))

\* the vector whose length the square root of Vec3::refract is taken of
refract_perp(uv, normal, etai_over_etat) ==
    LET cos_theta == FMin(dot_product(uv, Vec3_scale(normal, F(-1))), F(1))
    IN  Vec3_scale(Vec3_add(uv, Vec3_scale(normal, cos_theta)), etai_over_etat)

Vec3_refract(uv, normal, etai_over_etat) ==
    LET r_out_perp == refract_perp(uv, normal, etai_over_etat)
        r_out_paralel ==
            Vec3_scale(Vec3_scale(normal,
                                  FSqrt(FAbs(FSub(F(1), length_squared(r_out_perp))))),
                       F(-1))
    IN  Vec3_add(r_out_perp, r_out_paralel)

-----------------------------------------------------------------------------
(* Material *)

\* Material::Lambertian with a SolidTexture of the given colour for albedo
Lambertian(albedo) == [kind |-> "Lambertian", albedo |-> albedo]
Metal(albedo, fuzz) == [kind |-> "Metal", albedo |-> albedo, fuzz |-> fuzz]
Dielectric(index_of_refraction) ==
    [kind |-> "Dielectric", index_of_refraction |-> index_of_refraction]

\* SolidTexture::value
SolidTexture_value(color_val, point) == color_val

Scattering_new(attenuation, scattered) == [attenuation |-> attenuation, scattered |-> scattered]

\* Schlick's approximation
reflectance(cosine, reflective_index) ==
    LET r0 == FDiv(FSub(F(1), reflective_index), FAdd(F(1), reflective_index))
        r0sq == FMul(r0, r0)
    IN  FAdd(r0sq, FMul(FSub(F(1), r0sq), FPow5(FSub(F(1), cosine))))

\* refraction_ratio, unit_direction, cos_theta, sin_theta and cannot_refract of
\* the Dielectric arm of scatter
Dielectric_angles_from(refraction_ratio, unit_direction, cos_theta) ==
    LET sin_theta == FSqrt(FSub(F(1), FMul(cos_theta, cos_theta)))
    IN  [refraction_ratio |-> refraction_ratio,
         unit_direction |-> unit_direction,
         cos_theta |-> cos_theta,
         sin_theta |-> sin_theta,
         cannot_refract |-> FGt(FMul(refraction_ratio, sin_theta), F(1))]

Dielectric_angles(self, inc_ray, record) ==
    Dielectric_angles_from(
        IF record.front_face THEN FDiv(F(1), self.index_of_refraction)
                             ELSE self.index_of_refraction,
        unit_vector(inc_ray.direction),
        FMin(dot_product(Vec3_scale(unit_vector(inc_ray.direction), F(-1)), record.normal),
             F(1)))

\* the Dielectric arm reflects: total internal reflection, or the reflectance
\* exceeds the number random_float() returned; g is Dielectric_angles
Dielectric_reflects(g, float) ==
    g.cannot_refract \/ FGt(reflectance(g.cos_theta, g.refraction_ratio), float)

\* the direction the Dielectric arm gives the scattered ray
Dielectric_direction(g, record, float) ==
    IF Dielectric_reflects(g, float)
    THEN Vec3_reflect(g.unit_direction, record.normal)
    ELSE Vec3_refract(g.unit_direction, record.normal, g.refraction_ratio)

\* the Metal arm of scatter returns None: dot > 0.0 is false
Metal_absorbs(scattered, record) ==
    LET dot == dot_product(scattered.direction, record.normal)
    IN  ~FGt(dot, F(0))

\* Material::scatter; in_sphere is what Vec3::random_in_unit_sphere() returned
\* (Lambertian, through random_unit_vector, and Metal) and float what
\* random_float() returned (Dielectric)
scatter(self, inc_ray, record, in_sphere, float) ==
    IF self.kind = "Lambertian"
    THEN LET sum == Vec3_add(record.normal, unit_vector(in_sphere))
             scatter_direction == IF near_zero(sum) THEN record.normal ELSE sum
             scattered == Ray_new_at(record.point, scatter_direction, inc_ray.time)
             attenuation == SolidTexture_value(self.albedo, record.point)
         IN  Some(Scattering_new(attenuation, scattered))
    ELSE IF self.kind = "Metal"
    THEN LET reflected == Vec3_reflect(unit_vector(inc_ray.direction), record.normal)
             scattered == Ray_new_at(record.point,
                                     Vec3_add(reflected, Vec3_scale(in_sphere, self.fuzz)),
                                     inc_ray.time)
             attenuation == Vec3_new(self.albedo.x, self.albedo.y, self.albedo.z)
         IN  IF Metal_absorbs(scattered, record) THEN None
             ELSE Some(Scattering_new(attenuation, scattered))
    ELSE LET attenuation == V(1, 1, 1)
             direction == Dielectric_direction(Dielectric_angles(self, inc_ray, record),
                                               record, float)
         IN  Some(Scattering_new(attenuation, Ray_new_at(record.point, direction, inc_ray.time)))

\* the square roots of sin_theta and of Vec3::refract are exact; g is
\* Dielectric_angles
ExactDielectric(g, record, float) ==
    /\ IsSquare(FSub(F(1), FMul(g.cos_theta, g.cos_theta)))
    /\ \/ Dielectric_reflects(g, float)
       \/ IsSquare(FAbs(FSub(F(1), length_squared(
              refract_perp(g.unit_direction, record.normal, g.refraction_ratio)))))

\* every square root scatter takes for these arguments is exact
ExactScatter(self, inc_ray, record, in_sphere, float) ==
    IF self.kind = "Lambertian" THEN IsSquare(length_squared(in_sphere))
    ELSE IF self.kind = "Metal" THEN IsSquare(length_squared(inc_ray.direction))
    ELSE /\ IsSquare(length_squared(inc_ray.direction))
         /\ ExactDielectric(Dielectric_angles(self, inc_ray, record), record, float)

-----------------------------------------------------------------------------
(* ray_colour *)

\* a depth test that lets depth 0 through
depth_exhausted_below(depth) == depth < 0

\* if depth <= 0
depth_exhausted(depth) == depth <= 0

\* a recursive call given the depth of its caller
depth_kept(depth) == depth

\* ray_colour(.., depth - 1)
depth_minus_one(depth) == depth - 1

\* a gradient with the two colours exchanged
miss_colour_exchanged(r) ==
    LET unit_direction == unit_vector(r.direction)
        t == FMul(Q(1, 2), FAdd(unit_direction.y, F(1)))
    IN  Vec3_add(Vec3_scale(V(1, 1, 1), t),
                 Vec3_scale(Vec3_new(Q(1, 2), Q(7, 10), F(1)), FSub(F(1), t)))

\* the background gradient of a ray that hits nothing (t = 1 -> blue, t = 0 -> white)
miss_colour(r) ==
    LET unit_direction == unit_vector(r.direction)
        t == FMul(Q(1, 2), FAdd(unit_direction.y, F(1)))
    IN  Vec3_add(Vec3_scale(V(1, 1, 1), FSub(F(1), t)),
                 Vec3_scale(Vec3_new(Q(1, 2), Q(7, 10), F(1)), t))

\* callers that pass the colour on as it is
returned_unscaled(pending, colour) == colour

\* scattering.attenuation() * ray_colour(..) in every pending caller, the
\* innermost (last) first
RECURSIVE returned_through(_, _)
returned_through(pending, colour) ==
    IF pending = <<>> THEN colour
    ELSE returned_through(SubSeq(pending, 1, Len(pending) - 1),
                          Vec3_mul(pending[Len(pending)], colour))

-----------------------------------------------------------------------------
(* the parts of the state a specification leaves alone *)

NoBox == AABB_new(V(0, 0, 0), V(0, 0, 0))
NoRay == Ray_new(V(0, 0, 0), V(0, 0, 0))

AABBIdle ==
    /\ box = NoBox
    /\ ray = NoRay
    /\ min_t = F(0)
    /\ max_t = F(0)
    /\ box_hit = FALSE
    /\ apc = "off"

SurIdle ==
    /\ s_first = NoBox
    /\ s_second = NoBox
    /\ s_box = NoBox
    /\ spc = "off"

BVHIdle ==
    /\ scene = <<>>
    /\ bvh = None
    /\ cast = NoRay
    /\ cast_min = F(0)
    /\ cast_max = F(0)
    /\ bvh_hit = None
    /\ list_hit = None
    /\ bpc = "off"

CloserIdle ==
    /\ hit_left = None
    /\ hit_right = None
    /\ closer = None
    /\ cpc = "off"

BoxIdle ==
    /\ b_obj = None
    /\ b_box = None
    /\ bbpc = "off"

HitIdle ==
    /\ h_obj = None
    /\ h_ray = NoRay
    /\ h_min = F(0)
    /\ h_max = F(0)
    /\ h_hit = None
    /\ hpc = "off"

ScatIdle ==
    /\ m_self = None
    /\ m_ray = NoRay
    /\ m_rec = None
    /\ m_in_sphere = V(0, 0, 0)
    /\ m_float = F(0)
    /\ m_out = None
    /\ mpc = "off"

CrossIdle ==
    /\ v_first = V(0, 0, 0)
    /\ v_second = V(0, 0, 0)
    /\ v_actual = V(0, 0, 0)
    /\ vpc = "off"

ColourIdle ==
    /\ rc_world = HittableList_new(<<>>)
    /\ rc_call = [ray |-> NoRay, depth |-> 0]
    /\ rc_ray = NoRay
    /\ rc_depth = 0
    /\ rc_record = None
    /\ rc_pending = <<>>
    /\ rc_colour = V(0, 0, 0)
    /\ rc_leaf = "none"
    /\ rc_hits = 0
    /\ rc_scatters = 0
    /\ rcpc = "off"

TravIdle ==
    /\ tv_bvh = None
    /\ tv_ray = <<>>
    /\ tv_stack = <<>>
    /\ tv_ret = <<>>
    /\ tv_result = <<>>
    /\ tv_pc = <<>>
    /\ tv_box = None

ConsIdle ==
    /\ k_list = <<>>
    /\ k_stack = <<>>
    /\ k_ret = None
    /\ k_result = None
    /\ k_calls = 0
    /\ kpc = "off"

-----------------------------------------------------------------------------
(* AABB::hit applied to one box, ray and interval *)

\* boxes span 0..MaxExtent on each axis; an extent of 0 is a zero-thickness box
MaxExtent == 2

Boxes == { AABB_new(V(0, 0, 0), V(a, b, c)) : a, b, c \in 0..MaxExtent }

OriginCoords == { F(-1), F(0), F(1), F(3) }

\* a direction component is -1, -0.0, +0.0 or 1
DirCoords == { F(-1), NegZero, F(0), F(1) }

Rays == { Ray_new(Vec3_new(ox, oy, oz), Vec3_new(dx, dy, dz)) :
            ox \in OriginCoords, oy \in OriginCoords, oz \in OriginCoords,
            dx \in DirCoords, dy \in DirCoords, dz \in DirCoords }

\* the integrator's interval (0.001, +inf), and two finite ones
Intervals == { <<Q(1, 1000), PInf>>, <<Q(1, 1000), F(1)>>, <<F(1), F(3)>> }

\* the caller's arguments are drawn here; the call itself is CallAABBHit
InitAABB ==
    /\ box \in Boxes
    /\ ray \in Rays
    /\ \E i \in Intervals : min_t = i[1] /\ max_t = i[2]
    /\ box_hit = FALSE
    /\ apc = "idle"
    /\ SurIdle
    /\ BVHIdle
    /\ CloserIdle
    /\ BoxIdle
    /\ HitIdle
    /\ ScatIdle
    /\ CrossIdle
    /\ ColourIdle
    /\ TravIdle
    /\ ConsIdle

CallAABBHit ==
    /\ apc = "idle"
    /\ box_hit' = AABB_hit(box, ray, min_t, max_t)
    /\ apc' = "done"
    /\ UNCHANGED <<box, ray, min_t, max_t>>
    /\ UNCHANGED <<surVars, bvhVars, closerVars, boxVars, hitVars, scatVars, crossVars, colourVars, travVars, consVars>>

NextAABB == CallAABBHit

SpecAABB == InitAABB /\ [][NextAABB]_vars

(* ---- claims about AABB::hit, checked under SpecAABB ---- *)

\* parameters at which a point of the ray is sampled: 1/2, 1, 3/2, ...
TSamples == { Q(i, 2) : i \in 1..8 }

\* the running interval iv = <<t_min', t_max'>> narrowed by one slab
Narrow(iv, slab) ==
    << IF FGt(slab[1], iv[1]) THEN slab[1] ELSE iv[1],
       IF FLt(slab[2], iv[2]) THEN slab[2] ELSE iv[2] >>

\* the slab test that carries the narrowed interval from axis to axis
CarriedHit(b, r, lo, hi) ==
    LET i0 == Narrow(<<lo, hi>>, SlabInterval(b, r, 0))
        i1 == Narrow(i0, SlabInterval(b, r, 1))
        i2 == Narrow(i1, SlabInterval(b, r, 2))
    IN  FGt(i0[2], i0[1]) /\ FGt(i1[2], i1[1]) /\ FGt(i2[2], i2[1])

\* C5: AABB::hit returns true exactly when narrowing (t_min, t_max) by the x, y
\* and z slabs in turn, carrying the narrowed bounds from one axis to the next,
\* leaves t_max' > t_min' after every axis.
C5_HitIffCarriedNarrowing ==
    apc = "done" => (box_hit <=> CarriedHit(box, ray, min_t, max_t))

StrictlyInside(b, p) ==
    \A dim \in 0..2 :
        FLt(Coord(b.minimum, dim), Coord(p, dim)) /\ FLt(Coord(p, dim), Coord(b.maximum, dim))

\* one coordinate of ray.at(t)
AtCoord(r, t, dim) == FAdd(Coord(r.origin, dim), FMul(Coord(r.direction, dim), t))

RayStrictlyInside(b, r, t) ==
    \A dim \in 0..2 :
        /\ FLt(Coord(b.minimum, dim), AtCoord(r, t, dim))
        /\ FLt(AtCoord(r, t, dim), Coord(b.maximum, dim))

\* C6: if for some t with t_min < t < t_max the point ray.at(t) lies strictly
\* inside the box on all three axes, AABB::hit returns true.
C6_InteriorPointHits ==
    apc = "done" =>
        \A t \in TSamples :
            (FLt(min_t, t) /\ FLt(t, max_t) /\ RayStrictlyInside(box, ray, t)) => box_hit

\* C6 witness: the ray from a corner of the unit box passes through its centre
\* (1/2, 1/2, 1/2) at t = 1/2 and the box is reported hit.
C6_Witness ==
    /\ apc = "done"
    /\ box = AABB_new(V(0, 0, 0), V(1, 1, 1))
    /\ Ray_at(ray, Q(1, 2)) = Vec3_new(Q(1, 2), Q(1, 2), Q(1, 2))
    /\ FLt(min_t, Q(1, 2)) /\ FLt(Q(1, 2), max_t)
    /\ box_hit

\* the ray crosses the plane of the zero-thickness axis dim at parameter t, at
\* a point within the extent of the box on the other two axes
CrossesFlatBox(b, r, dim, t) ==
    /\ FEq(Coord(b.minimum, dim), Coord(b.maximum, dim))
    /\ ~IsZero(Coord(r.direction, dim))
    /\ FEq(AtCoord(r, t, dim), Coord(b.minimum, dim))
    /\ \A o \in (0..2) \ {dim} :
          /\ FLe(Coord(b.minimum, o), AtCoord(r, t, o))
          /\ FLe(AtCoord(r, t, o), Coord(b.maximum, o))

\* C7: a box of zero thickness on an axis causes no false negative: a ray that
\* crosses its plane at a parameter t in (t_min, t_max), within the extent of
\* the box on the other two axes, is reported as a hit.
C7_FlatBoxHit ==
    apc = "done" =>
        \A dim \in 0..2, t \in TSamples :
            (FLt(min_t, t) /\ FLt(t, max_t) /\ CrossesFlatBox(box, ray, dim, t)) => box_hit

\* C8: on an axis where the ray direction is zero, 1/0 is +-infinity (no
\* zero-check); the box is missed when the origin is strictly outside
\* [minimum, maximum] on that axis, and the axis passes its test when the
\* origin is strictly inside.
C8_ParallelRay ==
    apc = "done" =>
        \A dim \in 0..2 :
            IsZero(Coord(ray.direction, dim)) =>
                LET o == Coord(ray.origin, dim)
                    lo == Coord(box.minimum, dim)
                    hi == Coord(box.maximum, dim)
                    slab == SlabInterval(box, ray, dim)
                IN  /\ (FLt(o, lo) \/ FGt(o, hi)) => ~box_hit
                    /\ (FLt(lo, o) /\ FLt(o, hi)) =>
                           /\ slab = <<NInf, PInf>>
                           /\ computeIntersection(box, ray, min_t, max_t, dim)

\* C8 witness: a ray parallel to the x slab (direction.x = -0.0) with its
\* origin below the box on x is a miss, although it is inside on y and z.
C8_Witness ==
    /\ apc = "done"
    /\ ray.direction.x = NegZero
    /\ FLt(ray.origin.x, box.minimum.x)
    /\ StrictlyInside(box, Vec3_new(F(1), ray.origin.y, ray.origin.z))
    /\ box.maximum.x = F(2)
    /\ ~box_hit

-----------------------------------------------------------------------------
(* AABB::surrounding_box applied to two boxes *)

\* corners of the boxes to combine have coordinates in 0..MaxBoxCoord
MaxBoxCoord == 1

BoxCoords == 0..MaxBoxCoord

BoxPoints == { V(i, j, l) : i \in BoxCoords, j \in BoxCoords, l \in BoxCoords }

\* every box with minimum <= maximum on each axis
SBoxes ==
    { b \in [minimum : BoxPoints, maximum : BoxPoints] :
        \A dim \in 0..2 : FLe(Coord(b.minimum, dim), Coord(b.maximum, dim)) }

\* the third box of an associativity check: corners at coordinates 0 and MaxBoxCoord
ThirdBoxes ==
    { b \in SBoxes : \A dim \in 0..2 :
        /\ Coord(b.minimum, dim) \in {F(0), F(MaxBoxCoord)}
        /\ Coord(b.maximum, dim) \in {F(0), F(MaxBoxCoord)} }

InitSurround ==
    /\ s_first \in SBoxes
    /\ s_second \in SBoxes
    /\ s_box = NoBox
    /\ spc = "idle"
    /\ AABBIdle
    /\ BVHIdle
    /\ CloserIdle
    /\ BoxIdle
    /\ HitIdle
    /\ ScatIdle
    /\ CrossIdle
    /\ ColourIdle
    /\ TravIdle
    /\ ConsIdle

CallSurroundingBox ==
    /\ spc = "idle"
    /\ s_box' = surrounding_box(s_first, s_second)
    /\ spc' = "done"
    /\ UNCHANGED <<s_first, s_second>>
    /\ UNCHANGED <<aabbVars, bvhVars, closerVars, boxVars, hitVars, scatVars, crossVars, colourVars, travVars, consVars>>

NextSurround == CallSurroundingBox

SpecSurround == InitSurround /\ [][NextSurround]_vars

(* ---- claims about AABB::surrounding_box, checked under SpecSurround ---- *)

\* outer reaches at least as far as inner on every axis, in both directions
Contains(outer, inner) ==
    \A dim \in 0..2 :
        /\ FLe(Coord(outer.minimum, dim), Coord(inner.minimum, dim))
        /\ FLe(Coord(inner.maximum, dim), Coord(outer.maximum, dim))

\* the eight corners of a box
Corners(b) ==
    { Vec3_new(cx, cy, cz) : cx \in {b.minimum.x, b.maximum.x},
                             cy \in {b.minimum.y, b.maximum.y},
                             cz \in {b.minimum.z, b.maximum.z} }

PointIn(b, p) ==
    \A dim \in 0..2 :
        FLe(Coord(b.minimum, dim), Coord(p, dim)) /\ FLe(Coord(p, dim), Coord(b.maximum, dim))

C10_CommutativeAssociative ==
    spc = "done" =>
        /\ s_box = surrounding_box(s_second, s_first)
        /\ \A c \in ThirdBoxes :
              surrounding_box(s_box, c) = surrounding_box(s_first, surrounding_box(s_second, c))

\* C10 witness: two boxes with different maxima on z have been combined, and
\* the z maximum of the result is the second box's.
C10_Witness ==
    /\ spc = "done"
    /\ s_first # s_second
    /\ s_first.maximum.z # s_second.maximum.z
    /\ s_box.maximum.z # s_first.maximum.z

-----------------------------------------------------------------------------
(* a scene: BVH::construct over a list of objects, then one ray cast into the *)
(* tree and into the flat list of the same objects                           *)

\* the longest list of objects given to BVH::construct
MaxObjects == 3

\* two unit spheres touching at (1, 0, 0), a third touching the first at
\* (0, 1, 0), a sphere of radius 0, and an empty HittableList (the Hittable
\* that has no bounding box)
Objects ==
    { Sphere_new(V(0, 0, 0), F(1), "a"),
      Sphere_new(V(2, 0, 0), F(1), "b"),
      Sphere_new(V(0, 2, 0), F(1), "c"),
      Sphere_new(V(0, 0, 0), F(0), "z"),
      HittableList_new(<<>>) }

Lists == UNION { [1..n -> Objects] : n \in 0..MaxObjects }

\* the rays cast: along each axis through and past the spheres, from inside
\* one, tangent to two at once, with a direction of length 2, diagonal, and
\* with a direction component of -0.0
SceneRays ==
    { Ray_new(V(p[1][1], p[1][2], p[1][3]), V(p[2][1], p[2][2], p[2][3])) : p \in
        { << <<-3, 0, 0>>, <<1, 0, 0>> >>,  << <<-3, 1, 0>>, <<1, 0, 0>> >>,
          << <<-3, 0, 0>>, <<2, 0, 0>> >>,  << <<5, 0, 0>>, <<-1, 0, 0>> >>,
          << <<0, 0, 0>>, <<1, 0, 0>> >>,   << <<0, -3, 0>>, <<0, 1, 0>> >>,
          << <<1, -3, 0>>, <<0, 1, 0>> >>,  << <<0, 0, -3>>, <<0, 0, 1>> >>,
          << <<1, 0, -3>>, <<0, 0, 1>> >>,  << <<2, 0, -3>>, <<0, 0, 1>> >>,
          << <<-2, -3, 0>>, <<1, 1, 0>> >> } }
    \cup { Ray_new(V(0, 2, -3), Vec3_new(NegZero, F(0), F(1))) }

\* the integrator's interval (0.001, +inf), and one bounded on both sides
SceneIntervals == { <<Q(1, 1000), PInf>>, <<F(2), F(4)>> }

\* the time interval BVH::construct is called with
Time0 == F(0)
Time1 == F(1)

\* the square root in every ray/sphere quadratic of obj is exact
RECURSIVE ExactFor(_, _)
ExactFor(obj, r) ==
    IF obj.kind = "Sphere"
    THEN LET q == Sphere_quadratic(obj, r) IN IsSquare(discriminant(q.a, q.half_b, q.c))
    ELSE \A i \in 1..Len(obj.objects) : ExactFor(obj.objects[i], r)

Init ==
    /\ scene \in Lists
    /\ bvh = None
    /\ cast = NoRay
    /\ cast_min = F(0)
    /\ cast_max = F(0)
    /\ bvh_hit = None
    /\ list_hit = None
    /\ bpc = "new"
    /\ AABBIdle
    /\ SurIdle
    /\ CloserIdle
    /\ BoxIdle
    /\ HitIdle
    /\ ScatIdle
    /\ CrossIdle
    /\ ColourIdle
    /\ TravIdle
    /\ ConsIdle

Construct ==
    /\ bpc = "new"
    /\ \E outcome \in BVH_construct(scene, Time0, Time1) :
        /\ bvh' = outcome
        /\ bpc' = IF outcome.kind = "panic" THEN "panicked" ELSE "built"
    /\ UNCHANGED <<scene, cast, cast_min, cast_max, bvh_hit, list_hit>>
    /\ UNCHANGED <<aabbVars, surVars, closerVars, boxVars, hitVars, scatVars, crossVars, colourVars, travVars, consVars>>

Hit ==
    /\ bpc = "built"
    /\ \E r \in SceneRays, i \in SceneIntervals :
        /\ ExactFor(HittableList_new(scene), r)
        /\ cast' = r
        /\ cast_min' = i[1]
        /\ cast_max' = i[2]
        /\ bvh_hit' = BVH_hit(bvh, r, i[1], i[2])
        /\ list_hit' = HittableList_hit(HittableList_new(scene), r, i[1], i[2])
    /\ bpc' = "hit"
    /\ UNCHANGED <<scene, bvh>>
    /\ UNCHANGED <<aabbVars, surVars, closerVars, boxVars, hitVars, scatVars, crossVars, colourVars, travVars, consVars>>

Next == Construct \/ Hit

Spec == Init /\ [][Next]_vars

(* ---- claims about BVH::construct and BVH::hit, checked under Spec ---- *)

\* C1: for every non-empty list of objects, every BVH that BVH::construct can
\* build from it, and every ray and interval, BVH::hit returns a hit exactly
\* when HittableList::hit over the same objects does, and then both report
\* the same t and the same point.
C1_BVHEqualsLinearScan ==
    bpc = "hit" =>
        /\ bvh_hit.some <=> list_hit.some
        /\ (bvh_hit.some /\ list_hit.some) =>
              /\ FEq(bvh_hit.val.t, list_hit.val.t)
              /\ equal_to(bvh_hit.val.point, list_hit.val.point)

\* C2 (as claimed): BVH::construct on an empty list fails with an explicit
\* construction error: it returns no BVH, and the failure is an error outcome,
\* not a panic leaving the call.
C2_EmptyListErrorNotPanic ==
    (bpc # "new" /\ scene = <<>>) => (bvh.kind \notin {"Leaf", "Branch"} /\ bvh.kind # "panic")

\* C2 (amended): BVH::construct on an empty list returns no BVH: the call ends
\* in the panic "Cannot have 0 objects in list during BVH construction".
C2_EmptyListPanics ==
    (bpc # "new" /\ scene = <<>>) =>
        /\ bpc = "panicked"
        /\ bvh = Panic("Cannot have 0 objects in list during BVH construction")

\* C2 witness: BVH::construct has been called on the empty list and has ended.
C2_Witness == scene = <<>> /\ bpc = "panicked" /\ bvh.kind = "panic"

\* C3: for every non-empty list, of any length, that holds an object whose
\* bounding_box(t0, t1) is None, BVH::construct fails and returns no BVH.
C3_MissingBoxFails ==
    (/\ bpc # "new"
     /\ scene # <<>>
     /\ \E i \in 1..Len(scene) : ~Hittable_bounding_box(scene[i], Time0, Time1).some)
    => bvh.kind = "panic"

\* every node of a tree, the tree itself included
RECURSIVE NodesOf(_)
NodesOf(node) ==
    IF node.kind = "Branch"
    THEN {node} \cup NodesOf(node.left) \cup NodesOf(node.right)
    ELSE {node}

\* the objects wrapped by the leaves of a subtree
RECURSIVE ObjectsUnder(_)
ObjectsUnder(node) ==
    IF node.kind = "Branch"
    THEN ObjectsUnder(node.left) \cup ObjectsUnder(node.right)
    ELSE {node.obj}

\* a hit returned by the right subtree next to the hit left_hit of the left
\* subtree lies strictly before it
RightBeforeLeft(node, left_hit) ==
    LET right_hit == BVH_hit(node.right, cast, cast_min, left_hit.val.t)
    IN  right_hit.some => FLt(right_hit.val.t, left_hit.val.t)

\* no object under node is hit in the interval before the hit node returned
NoCloserObject(node, returned) ==
    \A obj \in ObjectsUnder(node) :
        LET hit == Hittable_hit(obj, cast, cast_min, cast_max)
        IN  hit.some => FLe(returned.val.t, hit.val.t)

\* C21: at every Branch of a constructed tree, for the ray and interval cast:
\* when the left subtree hits at t_left, a hit the right subtree returns over
\* (t_min, t_left) has t strictly smaller than t_left; and a hit returned by
\* the Branch has the smallest t among the hits of the objects of its subtree
\* within (t_min, t_max).
C21_BranchReturnsClosest ==
    bpc = "hit" =>
        \A node \in NodesOf(bvh) :
            node.kind = "Branch" =>
                LET left_hit == BVH_hit(node.left, cast, cast_min, cast_max)
                    returned == BVH_hit(node, cast, cast_min, cast_max)
                IN  /\ left_hit.some => RightBeforeLeft(node, left_hit)
                    /\ returned.some => NoCloserObject(node, returned)

\* the part of C21 about the right subtree alone
C21_RightStrictlyCloser ==
    bpc = "hit" =>
        \A node \in NodesOf(bvh) :
            node.kind = "Branch" =>
                LET left_hit == BVH_hit(node.left, cast, cast_min, cast_max)
                IN  left_hit.some => RightBeforeLeft(node, left_hit)

\* C21 on trees without a sphere of radius 0
C21_SoundTrees ==
    (bpc = "hit" /\ \A i \in 1..Len(scene) : scene[i] # Sphere_new(V(0, 0, 0), F(0), "z")) =>
        \A node \in NodesOf(bvh) :
            node.kind = "Branch" =>
                LET returned == BVH_hit(node, cast, cast_min, cast_max)
                IN  returned.some => NoCloserObject(node, returned)

\* C23: in every tree BVH::construct returns, the cached bounding_box of each
\* Branch equals surrounding_box of the bounding boxes of its two children for
\* the construction interval, and contains the bounding box of every object
\* of its subtree.
C23_BranchBoxIsUnion ==
    bpc \in {"built", "hit"} =>
        \A node \in NodesOf(bvh) :
            node.kind = "Branch" =>
                /\ node.bounding_box =
                       surrounding_box(BVH_bounding_box(node.left, Time0, Time1).val,
                                       BVH_bounding_box(node.right, Time0, Time1).val)
                /\ \A obj \in ObjectsUnder(node) :
                       Contains(node.bounding_box, Hittable_bounding_box(obj, Time0, Time1).val)

\* C23 witness: a tree of three different spheres has been built, a Branch
\* under its root
C23_Witness ==
    /\ bpc = "built"
    /\ bvh.kind = "Branch"
    /\ bvh.right.kind = "Branch"
    /\ Cardinality(ObjectsUnder(bvh)) = 3
    /\ bvh.bounding_box # bvh.right.bounding_box

\* the number of Leaf nodes of a tree
RECURSIVE LeafCount(_)
LeafCount(node) ==
    IF node.kind = "Branch" THEN LeafCount(node.left) + LeafCount(node.right) ELSE 1

\* the two subtrees of node were split by the key on axis: no object on the
\* left has a larger minimum corner on axis than an object on the right
SplitOn(node, axis) ==
    \A l \in ObjectsUnder(node.left), g \in ObjectsUnder(node.right) :
        FLe(sort_key(l, axis, Time0, Time1), sort_key(g, axis, Time0, Time1))

\* C24: every Branch of a constructed tree, made by a BVH::construct call on
\* n >= 2 objects, has floor(n/2) of them under its left subtree and the other
\* n - floor(n/2) under its right subtree, at least one on each side, and
\* there is an axis x, y or z on which the minimum corner of every left object
\* is <= that of every right object; and each of the three axes can be the
\* one the first call splits on.
C24_SortedMidpointSplit ==
    /\ bpc \in {"built", "hit"} =>
          \A node \in NodesOf(bvh) :
              node.kind = "Branch" =>
                  /\ LeafCount(node.left) = LeafCount(node) \div 2
                  /\ LeafCount(node.right) = LeafCount(node) - LeafCount(node) \div 2
                  /\ LeafCount(node.left) >= 1 /\ LeafCount(node.right) >= 1
                  /\ \E axis \in random_int_in_range(0, 3) : SplitOn(node, axis)
    /\ (bpc = "new" /\ Len(scene) >= 2
           /\ \A i \in 1..Len(scene) : Hittable_bounding_box(scene[i], Time0, Time1).some) =>
          \A axis \in 0..2 :
              \E outcome \in BVH_construct(scene, Time0, Time1) :
                  /\ outcome.kind = "Branch"
                  /\ SplitOn(outcome, axis)
                  /\ \E i, j \in 1..Len(scene) :
                        /\ scene[i] \in ObjectsUnder(outcome.left)
                        /\ scene[j] \in ObjectsUnder(outcome.right)
                        /\ FLt(sort_key(scene[i], axis, Time0, Time1),
                               sort_key(scene[j], axis, Time0, Time1))
                           \/ \A a, b \in 1..Len(scene) :
                                 FEq(sort_key(scene[a], axis, Time0, Time1),
                                     sort_key(scene[b], axis, Time0, Time1))

\* C24 witness: a tree of three spheres given in descending order of their
\* minimum x has been built, split on x: the sphere given last alone on the
\* left
C24_Witness ==
    /\ bpc = "built"
    /\ scene = <<Sphere_new(V(2, 0, 0), F(1), "b"), Sphere_new(V(0, 0, 0), F(0), "z"),
                 Sphere_new(V(0, 0, 0), F(1), "a")>>
    /\ bvh.kind = "Branch"
    /\ bvh.left = Leaf(Sphere_new(V(0, 0, 0), F(1), "a"))
    /\ bvh.right.kind = "Branch"
    /\ bvh.right.left = Leaf(Sphere_new(V(0, 0, 0), F(0), "z"))

-----------------------------------------------------------------------------
(* the final match of BVH::hit on a Branch, applied to two results *)

\* the largest t of a result given to the match
MaxHitT == 3

\* a hit at parameter t of the ray from (0, 0, -3) towards +z, on the object
\* with the given material
HitAt(t, material) ==
    HitRecord_new(V(0, 0, t - 3), V(0, 0, -1), F(t), TRUE, material)

HitOptions == {None} \cup { Some(HitAt(t, m)) : t \in 1..MaxHitT, m \in {"a", "b", "c"} }

InitCloser ==
    /\ hit_left \in HitOptions
    /\ hit_right \in HitOptions
    /\ closer = None
    /\ cpc = "idle"
    /\ AABBIdle
    /\ SurIdle
    /\ BVHIdle
    /\ BoxIdle
    /\ HitIdle
    /\ ScatIdle
    /\ CrossIdle
    /\ ColourIdle
    /\ TravIdle
    /\ ConsIdle

ReturnCloser ==
    /\ cpc = "idle"
    /\ closer' = closer_hit(hit_left, hit_right)
    /\ cpc' = "done"
    /\ UNCHANGED <<hit_left, hit_right>>
    /\ UNCHANGED <<aabbVars, surVars, bvhVars, boxVars, hitVars, scatVars, crossVars, colourVars, travVars, consVars>>

NextCloser == ReturnCloser

SpecCloser == InitCloser /\ [][NextCloser]_vars

-----------------------------------------------------------------------------
(* Hittable::bounding_box applied to one object over the scene's time interval *)

\* radii run from -1 (the "hollow shell" sphere of main.rs) to MaxRadius
MaxRadius == 2

Radii == { F(r) : r \in -1..MaxRadius }

BoxCentres == { V(0, 0, 0), V(2, 0, 0), V(-1, 3, 1) }

BoxSpheres == { Sphere_new(c, r, "m") : c \in BoxCentres, r \in Radii }

\* spheres moving from time 0 to time 1 or 2
BoxMovingSpheres ==
    { MovingSphere_new(c0, F(0), c1, F(t), r, "m") :
        c0 \in BoxCentres, c1 \in BoxCentres, t \in 1..2, r \in Radii }

BoxPairs == { <<p, q>> : p \in BoxSpheres, q \in BoxSpheres \cup BoxMovingSpheres }

\* a primitive, a list of two, or a tree BVH::construct builds from two
BoxObjects ==
    BoxSpheres \cup BoxMovingSpheres
    \cup { HittableList_new(l) : l \in BoxPairs }
    \cup UNION { BVH_construct(l, Time0, Time1) : l \in BoxPairs }

InitBox ==
    /\ b_obj \in BoxObjects
    /\ b_box = None
    /\ bbpc = "idle"
    /\ AABBIdle
    /\ SurIdle
    /\ BVHIdle
    /\ CloserIdle
    /\ HitIdle
    /\ ScatIdle
    /\ CrossIdle
    /\ ColourIdle
    /\ TravIdle
    /\ ConsIdle

CallBoundingBox ==
    /\ bbpc = "idle"
    /\ b_box' = Hittable_bounding_box(b_obj, Time0, Time1)
    /\ bbpc' = "done"
    /\ UNCHANGED b_obj
    /\ UNCHANGED <<aabbVars, surVars, bvhVars, closerVars, hitVars, scatVars, crossVars, colourVars, travVars, consVars>>

NextBox == CallBoundingBox

SpecBox == InitBox /\ [][NextBox]_vars

\* minimum <= maximum on all three axes
WellFormed(b) ==
    /\ FLe(b.minimum.x, b.maximum.x)
    /\ FLe(b.minimum.y, b.maximum.y)
    /\ FLe(b.minimum.z, b.maximum.z)

\* C11: no box with inverted bounds is constructed: the box bounding_box
\* returns for a Sphere, a MovingSphere, a HittableList (the surrounding_box
\* of its objects' boxes) and a BVH Branch (its cached box) has
\* minimum <= maximum on all three axes.
C11_NoInvertedBox ==
    (bbpc = "done" /\ b_box.some) => WellFormed(b_box.val)

-----------------------------------------------------------------------------
(* Sphere::hit and MovingSphere::hit applied to one sphere, ray and interval *)

HitSpheres == { Sphere_new(c, r, "m") : c \in { V(0, 0, 0), V(0, 1, 0) }, r \in Radii }

\* spheres moving from the origin at time 0 to center_1 at time 1
HitMovingSpheres ==
    { MovingSphere_new(V(0, 0, 0), F(0), c1, F(1), r, "m") :
        c1 \in { V(2, 0, 0), V(0, 0, 2) }, r \in Radii }

\* rays at time 0, 1/2 and 1; the directions have length 1 or 2
HitRays ==
    { Ray_new_at(o, d, t) :
        o \in { V(0, 0, -5), V(10, 10, -5), V(0, 0, 0), V(0, 1, -5), V(1, 0, -5) },
        d \in { V(0, 0, 1), V(0, 0, 2), V(0, 0, -1), V(1, 0, 0) },
        t \in { F(0), Q(1, 2), F(1) } }

HitIntervals ==
    { <<Q(1, 1000), F(4)>>, <<Q(1, 1000), F(6)>>, <<Q(1, 1000), PInf>>,
      <<F(4), F(6)>>, <<F(4), PInf>>, <<F(5), F(6)>>, <<F(5), PInf>> }

\* a, half_b and c of the quadratic the object's hit solves for the ray
Quadratic(obj, r) ==
    IF obj.kind = "Sphere" THEN Sphere_quadratic(obj, r) ELSE MovingSphere_quadratic(obj, r)

\* the square root in the object's hit is exact for the ray
ExactHit(obj, r) ==
    LET q == Quadratic(obj, r) IN IsSquare(discriminant(q.a, q.half_b, q.c))

InitSphere ==
    /\ h_obj \in HitSpheres \cup HitMovingSpheres
    /\ h_ray \in { r \in HitRays : ExactHit(h_obj, r) }
    /\ \E i \in HitIntervals : h_min = i[1] /\ h_max = i[2]
    /\ h_hit = None
    /\ hpc = "idle"
    /\ AABBIdle
    /\ SurIdle
    /\ BVHIdle
    /\ CloserIdle
    /\ BoxIdle
    /\ ScatIdle
    /\ CrossIdle
    /\ ColourIdle
    /\ TravIdle
    /\ ConsIdle

CallHit ==
    /\ hpc = "idle"
    /\ h_hit' = Hittable_hit(h_obj, h_ray, h_min, h_max)
    /\ hpc' = "done"
    /\ UNCHANGED <<h_obj, h_ray, h_min, h_max>>
    /\ UNCHANGED <<aabbVars, surVars, bvhVars, closerVars, boxVars, scatVars, crossVars, colourVars, travVars, consVars>>

NextSphere == CallHit

SpecSphere == InitSphere /\ [][NextSphere]_vars

\* the parameters at which roots are looked for: the multiples of 1/4 up to
\* MaxRoot on either side of 0 (every root of the quadratics above is one)
MaxRoot == 20

TGrid == { Q(p, 4) : p \in (-4 * MaxRoot)..(4 * MaxRoot) }

\* the value at t of a*t^2 + 2*half_b*t + c, which is |ray.at(t) - center|^2 - radius^2
QuadraticAt(q, t) ==
    FAdd(FAdd(FMul(q.a, FMul(t, t)), FMul(F(2), FMul(q.half_b, t))), q.c)

\* the roots of the quadratic, found by trying every parameter of the grid
RootsOf(q) == { t \in TGrid : IsZero(QuadraticAt(q, t)) }

\* the quadratic has no real root, or its two roots (which sum to -2*half_b/a)
\* are both on the grid
RootsOnGrid(q) ==
    \/ FLt(discriminant(q.a, q.half_b, q.c), F(0))
    \/ \E t \in RootsOf(q) :
          \E u \in TGrid : FEq(FAdd(t, u), FDiv(FMul(F(-2), q.half_b), q.a))

RootsInside(q, lo, hi) == { t \in RootsOf(q) : FLt(lo, t) /\ FLt(t, hi) }

\* C12: Sphere::hit and MovingSphere::hit return a hit only at a root t of the
\* ray/sphere quadratic with t_min < t < t_max, the smallest such root; they
\* return no hit exactly when no root is strictly inside the interval.  From
\* (0,0,-5) towards +z the unit sphere at the origin is hit at t = 4 with
\* normal (0,0,-1) and front_face = TRUE.
C12_HitAtSmallestRootInside ==
    hpc = "done" =>
        LET q == Quadratic(h_obj, h_ray)
            inside == RootsInside(q, h_min, h_max)
        IN  /\ RootsOnGrid(q)
            /\ h_hit.some <=> inside # {}
            /\ h_hit.some =>
                  /\ \E t \in inside : FEq(t, h_hit.val.t)
                  /\ \A t \in inside : FLe(h_hit.val.t, t)
            /\ (/\ h_obj = Sphere_new(V(0, 0, 0), F(1), "m")
                /\ h_ray.origin = V(0, 0, -5) /\ h_ray.direction = V(0, 0, 1)
                /\ FLt(h_min, F(4)) /\ FLt(F(4), h_max))
               => /\ h_hit.some
                  /\ h_hit.val.t = F(4)
                  /\ equal_to(h_hit.val.normal, V(0, 0, -1))
                  /\ h_hit.val.front_face

\* C12 witness: both roots (4 and 6) of the unit sphere's quadratic are inside
\* the interval and the hit is at 4
C12_Witness ==
    /\ hpc = "done"
    /\ h_obj = Sphere_new(V(0, 0, 0), F(1), "m")
    /\ h_ray.origin = V(0, 0, -5) /\ h_ray.direction = V(0, 0, 1)
    /\ Cardinality(RootsInside(Quadratic(h_obj, h_ray), h_min, h_max)) = 2
    /\ h_hit.some /\ h_hit.val.t = F(4)

\* the outward normal Sphere::hit and MovingSphere::hit compute for a hit
OutwardNormal(obj, r, hit) ==
    LET center == IF obj.kind = "Sphere" THEN obj.center ELSE MovingSphere_center(obj, r.time)
    IN  Vec3_div(Vec3_sub(hit.point, center), obj.radius)

\* C13: in every HitRecord returned, front_face is TRUE exactly when
\* dot(ray.direction, outward_normal) < 0, normal is outward_normal when
\* front_face is TRUE and its negation otherwise, and dot(ray.direction,
\* normal) <= 0.
C13_NormalAgainstRay ==
    (hpc = "done" /\ h_hit.some) =>
        LET outward_normal == OutwardNormal(h_obj, h_ray, h_hit.val)
        IN  /\ h_hit.val.front_face <=> FLt(dot_product(h_ray.direction, outward_normal), F(0))
            /\ h_hit.val.normal = IF h_hit.val.front_face THEN outward_normal
                                  ELSE Vec3_scale(outward_normal, F(-1))
            /\ FLe(dot_product(h_ray.direction, h_hit.val.normal), F(0))

\* the time intervals bounding_box is asked for, and the times in between
BoxIntervals == { <<F(0), F(1)>>, <<F(0), Q(1, 2)>>, <<Q(1, 2), F(1)>>, <<Q(1, 2), Q(1, 2)>> }

Taus == { F(0), Q(1, 4), Q(1, 2), Q(3, 4), F(1) }

\* the box of the sphere of this radius centred at center
BoxAround(center, radius) ==
    AABB_new(Vec3_sub(center, Vec3_new(radius, radius, radius)),
             Vec3_add(center, Vec3_new(radius, radius, radius)))

\* bounding_box(t0, t1) of a moving sphere is the union of its boxes at t0
\* and at t1 and contains its box at every time in between
UnionOverInterval(obj, t0, t1) ==
    LET b == MovingSphere_bounding_box(obj, t0, t1).val
    IN  /\ b = surrounding_box(BoxAround(MovingSphere_center(obj, t0), obj.radius),
                               BoxAround(MovingSphere_center(obj, t1), obj.radius))
        /\ \A tau \in Taus :
              (FLe(t0, tau) /\ FLe(tau, t1)) =>
                  Contains(b, BoxAround(MovingSphere_center(obj, tau), obj.radius))

\* C28: MovingSphere::bounding_box(t0, t1) is the union of the sphere's box
\* at center(t0) and at center(t1), contains the box of the sphere centred at
\* center(tau) for every tau in [t0, t1], and every hit of a ray whose time
\* lies in [t0, t1] is at a point inside bounding_box(t0, t1).
C28_MovingBoxCoversHits ==
    (hpc = "done" /\ h_obj.kind = "MovingSphere") =>
        \A i \in BoxIntervals :
            /\ UnionOverInterval(h_obj, i[1], i[2])
            /\ (h_hit.some /\ FLe(i[1], h_ray.time) /\ FLe(h_ray.time, i[2])) =>
                  PointIn(MovingSphere_bounding_box(h_obj, i[1], i[2]).val, h_hit.val.point)

\* the part of C28 about the boxes alone
C28_UnionOfEndpointBoxes ==
    (hpc = "done" /\ h_obj.kind = "MovingSphere") =>
        \A i \in BoxIntervals : UnionOverInterval(h_obj, i[1], i[2])

\* C28 for the moving spheres of radius >= 0
C28_PositiveRadius ==
    (hpc = "done" /\ h_obj.kind = "MovingSphere" /\ FLe(F(0), h_obj.radius)) =>
        \A i \in BoxIntervals :
            (h_hit.some /\ FLe(i[1], h_ray.time) /\ FLe(h_ray.time, i[2])) =>
                PointIn(MovingSphere_bounding_box(h_obj, i[1], i[2]).val, h_hit.val.point)

\* a sphere of radius >= 1 in motion was hit by a ray at time 1/2
C28_MovingHit ==
    /\ hpc = "done" /\ h_obj.kind = "MovingSphere" /\ FLe(F(1), h_obj.radius)
    /\ h_hit.some /\ h_ray.time = Q(1, 2)

-----------------------------------------------------------------------------
(* HittableList::hit applied to one list, ray and interval *)

InitList ==
    /\ h_obj \in { HittableList_new(l) : l \in Lists }
    /\ h_ray \in { r \in SceneRays : ExactFor(h_obj, r) }
    /\ \E i \in SceneIntervals : h_min = i[1] /\ h_max = i[2]
    /\ h_hit = None
    /\ hpc = "idle"
    /\ AABBIdle
    /\ SurIdle
    /\ BVHIdle
    /\ CloserIdle
    /\ BoxIdle
    /\ ScatIdle
    /\ CrossIdle
    /\ ColourIdle
    /\ TravIdle
    /\ ConsIdle

SpecList == InitList /\ [][NextSphere]_vars

\* what the i-th object of the list returns for the ray over (t_min, t_max)
OwnHit(i) == Hittable_hit(h_obj.objects[i], h_ray, h_min, h_max)

\* the objects of the list that hit within (t_min, t_max)
Hitters == { i \in 1..Len(h_obj.objects) : OwnHit(i).some }

\* C29: HittableList::hit returns no hit exactly when no object of the list
\* hits within (t_min, t_max), in particular for the empty list; otherwise it
\* returns the hit of the object whose t is the minimum over the hits of all
\* objects in the interval, and of two objects hitting at the same t that of
\* the one earlier in the list.
C29_ListReturnsFirstClosest ==
    hpc = "done" =>
        /\ h_hit.some <=> Hitters # {}
        /\ Len(h_obj.objects) = 0 => ~h_hit.some
        /\ h_hit.some =>
              \E i \in Hitters :
                  /\ h_hit = OwnHit(i)
                  /\ \A j \in Hitters :
                        /\ FLe(OwnHit(i).val.t, OwnHit(j).val.t)
                        /\ j < i => FLt(OwnHit(i).val.t, OwnHit(j).val.t)

\* C29 witness: the ray tangent to spheres a and b at once; b comes first
\* in the list, a second and last, and the hit returned is that of b
C29_Witness ==
    /\ hpc = "done"
    /\ h_obj.objects = <<Sphere_new(V(2, 0, 0), F(1), "b"), Sphere_new(V(0, 0, 0), F(1), "a"),
                         Sphere_new(V(0, 0, 0), F(1), "a")>>
    /\ Hitters = {1, 2, 3}
    /\ FEq(OwnHit(1).val.t, OwnHit(2).val.t)
    /\ h_hit.some
    /\ h_hit.val.material = "b"

-----------------------------------------------------------------------------
(* Material::scatter applied to one material, incoming ray and hit record *)

Materials ==
    { Lambertian(Vec3_new(Q(1, 2), Q(1, 2), Q(1, 2))),
      Metal(Vec3_new(Q(7, 10), Q(3, 5), Q(1, 2)), F(0)),
      Metal(Vec3_new(Q(7, 10), Q(3, 5), Q(1, 2)), Q(1, 2)),
      Metal(Vec3_new(Q(7, 10), Q(3, 5), Q(1, 2)), F(1)),
      Dielectric(F(1)),
      Dielectric(Q(3, 2)) }

\* rays that hit the unit sphere at the origin: head-on, with a direction of
\* length 2, at angles with cosine 4/5 and 3/5, from inside, and tangent
ScatterRays ==
    { Ray_new(V(0, 0, -5), V(0, 0, 1)),
      Ray_new(V(0, 0, -5), V(0, 0, 2)),
      Ray_new(V(-3, 0, -5), V(3, 0, 4)),
      Ray_new(V(-4, 0, -4), V(4, 0, 3)),
      Ray_new(V(0, 0, 0), V(0, 0, 1)),
      Ray_new(Vec3_new(Q(-4, 5), F(0), Q(2, 5)), V(4, 0, 3)),
      Ray_new(Vec3_new(Q(-3, 5), F(0), Q(1, 5)), V(3, 0, 4)),
      Ray_new(V(-3, 1, 0), V(1, 0, 0)) }

\* the spheres hit: the unit sphere and the sphere of radius 0 at the origin
ScatterSpheres == { Sphere_new(V(0, 0, 0), F(1), "m"), Sphere_new(V(0, 0, 0), F(0), "z") }

\* the records ray_colour can pass to scatter with the ray: what the hit of a
\* sphere over (0.001, INFINITY) returned
RecordsOf(r) ==
    { Sphere_hit(sphere, r, Q(1, 1000), PInf).val :
        sphere \in { sp \in ScatterSpheres : Sphere_hit(sp, r, Q(1, 1000), PInf).some } }

InitScatter ==
    /\ m_self \in Materials
    /\ m_ray \in ScatterRays
    /\ m_rec \in RecordsOf(m_ray)
    /\ m_in_sphere \in random_in_unit_sphere
    /\ m_float \in random_float
    /\ ExactScatter(m_self, m_ray, m_rec, m_in_sphere, m_float)
    /\ m_out = None
    /\ mpc = "idle"
    /\ AABBIdle
    /\ SurIdle
    /\ BVHIdle
    /\ CloserIdle
    /\ BoxIdle
    /\ HitIdle
    /\ CrossIdle
    /\ ColourIdle
    /\ TravIdle
    /\ ConsIdle

CallScatter ==
    /\ mpc = "idle"
    /\ m_out' = scatter(m_self, m_ray, m_rec, m_in_sphere, m_float)
    /\ mpc' = "done"
    /\ UNCHANGED <<m_self, m_ray, m_rec, m_in_sphere, m_float>>
    /\ UNCHANGED <<aabbVars, surVars, bvhVars, closerVars, boxVars, hitVars, crossVars, colourVars, travVars, consVars>>

NextScatter == CallScatter

SpecScatter == InitScatter /\ [][NextScatter]_vars

\* C16: a Dielectric with index_of_refraction = 1.0 never bends a ray: the
\* direction of the scattered ray equals the unit incident direction, for
\* every incoming ray, hit record and random draw.
C16_UnitIndexNeverBends ==
    (mpc = "done" /\ m_self = Dielectric(F(1))) =>
        /\ m_out.some
        /\ equal_to(m_out.val.scattered.direction, unit_vector(m_ray.direction))

\* the direction the Metal arm gives the scattered ray
MetalDirection(self, inc_ray, record, in_sphere) ==
    Vec3_add(Vec3_reflect(unit_vector(inc_ray.direction), record.normal),
             Vec3_scale(in_sphere, self.fuzz))

\* C17: for Metal with fuzz = 0 the scattered direction d is the mirror image
\* of the unit incoming direction v about the unit normal n, v - 2(v.n)n: its
\* component along n is that of v negated, its component perpendicular to n is
\* that of v, and reflecting it again about n gives v.  (The ray is scattered
\* exactly when v.n < 0.)
C17_MetalMirror ==
    (/\ mpc = "done" /\ m_self.kind = "Metal" /\ IsZero(m_self.fuzz)
     /\ FEq(length_squared(m_rec.normal), F(1))) =>
        LET v == unit_vector(m_ray.direction)
            n == m_rec.normal
            d == m_out.val.scattered.direction
        IN  /\ m_out.some <=> FLt(dot_product(v, n), F(0))
            /\ m_out.some =>
                  /\ equal_to(d, Vec3_sub(v, Vec3_scale(n, FMul(F(2), dot_product(v, n)))))
                  /\ FEq(dot_product(d, n), FNeg(dot_product(v, n)))
                  /\ equal_to(Vec3_sub(d, Vec3_scale(n, dot_product(d, n))),
                              Vec3_sub(v, Vec3_scale(n, dot_product(v, n))))
                  /\ equal_to(Vec3_reflect(d, n), v)

\* C17 witness: a ray meeting the surface at an angle (cosine 4/5) is mirrored
C17_Witness ==
    /\ mpc = "done"
    /\ m_self.kind = "Metal" /\ IsZero(m_self.fuzz)
    /\ m_ray.direction = V(3, 0, 4)
    /\ m_rec.front_face
    /\ m_out.some
    /\ equal_to(m_out.val.scattered.direction, Vec3_new(Q(3, 5), F(0), Q(-4, 5)))

\* C18: scatter returns None only for Metal, and for Metal exactly when
\* dot(scattered.direction, normal) <= 0; Lambertian and Dielectric return a
\* Scattering for every incoming ray, hit record and random draw.
C18_AbsorbedOnlyByMetal ==
    mpc = "done" =>
        /\ m_self.kind \in {"Lambertian", "Dielectric"} => m_out.some
        /\ m_self.kind = "Metal" =>
              LET direction == MetalDirection(m_self, m_ray, m_rec, m_in_sphere)
              IN  /\ ~m_out.some <=> FLe(dot_product(direction, m_rec.normal), F(0))
                  /\ m_out.some => equal_to(m_out.val.scattered.direction, direction)

-----------------------------------------------------------------------------
(* Vec3::cross_product applied to two vectors *)

MaxComp == 4

\* the vectors multiplied: integer components, those of test_cross_product included
CrossVectors == { V(i, j, l) : i, j, l \in -1..MaxComp }

InitCross ==
    /\ v_first \in CrossVectors
    /\ v_second \in CrossVectors
    /\ v_actual = V(0, 0, 0)
    /\ vpc = "ready"
    /\ AABBIdle
    /\ SurIdle
    /\ BVHIdle
    /\ CloserIdle
    /\ BoxIdle
    /\ HitIdle
    /\ ScatIdle
    /\ ColourIdle
    /\ TravIdle
    /\ ConsIdle

\* let actual = first.cross_product(&second)
CallCross ==
    /\ vpc = "ready"
    /\ v_actual' = cross_product(v_first, v_second)
    /\ vpc' = "done"
    /\ UNCHANGED <<v_first, v_second>>
    /\ UNCHANGED <<aabbVars, surVars, bvhVars, closerVars, boxVars, hitVars, scatVars, colourVars, travVars, consVars>>

NextCross == CallCross

SpecCross == InitCross /\ [][NextCross]_vars

\* C20: cross_product(a, b) is (a.y*b.z - a.z*b.y, a.z*b.x - a.x*b.z,
\* a.x*b.y - a.y*b.x): its dot product with a and with b is zero and
\* cross_product(b, a) is its negation.
C20_CrossProduct ==
    vpc = "done" =>
        LET a == v_first
            b == v_second
        IN  /\ FEq(v_actual.x, FSub(FMul(a.y, b.z), FMul(a.z, b.y)))
            /\ FEq(v_actual.y, FSub(FMul(a.z, b.x), FMul(a.x, b.z)))
            /\ FEq(v_actual.z, FSub(FMul(a.x, b.y), FMul(a.y, b.x)))
            /\ FEq(dot_product(v_actual, a), F(0))
            /\ FEq(dot_product(v_actual, b), F(0))
            /\ equal_to(cross_product(b, a), Vec3_scale(v_actual, F(-1)))

\* C20 witness: (1,2,3) x (2,3,4) = (-1,2,-1), as in test_cross_product
C20_Witness ==
    /\ vpc = "done"
    /\ v_first = V(1, 2, 3)
    /\ v_second = V(2, 3, 4)
    /\ equal_to(v_actual, V(-1, 2, -1))

-----------------------------------------------------------------------------
(* ray_colour applied to one scene, ray and depth; one action per way a call *)
(* of ray_colour ends or recurses                                            *)

MaxDepth == 3

Mirror == Metal(Vec3_new(Q(7, 10), Q(3, 5), Q(1, 2)), F(0))

\* the materials of the scenes (glass of index 3/2 is the only Dielectric: the
\* numbers of a ray inside a Dielectric of index 1 outgrow the integers)
ColourMaterials == Materials \ { Dielectric(F(1)) }

\* the scenes: empty, the unit sphere in each material, two facing mirrors
ColourWorlds ==
    { HittableList_new(<<>>) }
    \cup { HittableList_new(<<Sphere_new(V(0, 0, 0), F(1), material)>>) :
              material \in ColourMaterials }
    \cup { HittableList_new(<<Sphere_new(V(0, 0, 0), F(1), Mirror),
                              Sphere_new(V(0, 0, -6), F(1), Mirror)>>) }

\* rays towards the unit sphere, and rays from (5, 0, 0) that pass every
\* sphere: straight up, straight down, level, and climbing or falling at
\* several slopes
ColourRays ==
    { Ray_new(V(0, 0, -3), V(0, 0, 1)),
      Ray_new(V(-3, 0, -5), V(3, 0, 4)),
      Ray_new(V(-4, 0, -4), V(4, 0, 3)),
      Ray_new(V(5, 0, 0), V(0, 1, 0)),
      Ray_new(V(5, 0, 0), V(0, -1, 0)),
      Ray_new(V(5, 0, 0), V(0, 0, 1)),
      Ray_new(V(5, 0, 0), V(3, 4, 0)),
      Ray_new(V(5, 0, 0), V(4, 3, 0)),
      Ray_new(V(5, 0, 0), V(4, -3, 0)),
      Ray_new(V(5, 0, 0), V(1, 2, 2)),
      Ray_new(V(5, 0, 0), V(2, -2, 1)) }

InitColour ==
    /\ rc_world \in ColourWorlds
    /\ \E r \in ColourRays, depth \in 0..MaxDepth :
          /\ rc_call = [ray |-> r, depth |-> depth]
          /\ rc_ray = r
          /\ rc_depth = depth
    /\ rc_record = None
    /\ rc_pending = <<>>
    /\ rc_colour = V(0, 0, 0)
    /\ rc_leaf = "none"
    /\ rc_hits = 0
    /\ rc_scatters = 0
    /\ rcpc = "call"
    /\ AABBIdle
    /\ SurIdle
    /\ BVHIdle
    /\ CloserIdle
    /\ BoxIdle
    /\ HitIdle
    /\ ScatIdle
    /\ CrossIdle
    /\ TravIdle
    /\ ConsIdle

\* the innermost call returns colour: every pending caller multiplies it with
\* its attenuation
Return(colour, leaf) ==
    /\ rc_colour' = returned_through(rc_pending, colour)
    /\ rc_leaf' = leaf
    /\ rc_pending' = <<>>
    /\ rcpc' = "done"
    /\ UNCHANGED <<rc_world, rc_call, rc_ray, rc_depth, rc_record>>

\* if let Some(scattering): scattering.attenuation() * ray_colour(&scattering.scattered(), ..)
Recurse(scattering) ==
    /\ scattering.some
    /\ rc_pending' = Append(rc_pending, scattering.val.attenuation)
    /\ rc_ray' = scattering.val.scattered

\* if depth <= 0 { return Color::new(0.0, 0.0, 0.0); }
ColourDepth ==
    /\ rcpc = "call"
    /\ depth_exhausted(rc_depth)
    /\ Return(V(0, 0, 0), "depth")
    /\ UNCHANGED <<rc_hits, rc_scatters>>
    /\ UNCHANGED <<aabbVars, surVars, bvhVars, closerVars, boxVars, hitVars, scatVars, crossVars, travVars, consVars>>

\* world.hit(ray, 0.001, INFINITY)
ColourHit ==
    /\ rcpc = "call"
    /\ ~depth_exhausted(rc_depth)
    /\ ExactFor(rc_world, rc_ray)
    /\ rc_record' = HittableList_hit(rc_world, rc_ray, Q(1, 1000), PInf)
    /\ rc_hits' = rc_hits + 1
    /\ rcpc' = "hit"
    /\ UNCHANGED <<rc_world, rc_call, rc_ray, rc_depth, rc_pending, rc_colour, rc_leaf, rc_scatters>>
    /\ UNCHANGED <<aabbVars, surVars, bvhVars, closerVars, boxVars, hitVars, scatVars, crossVars, travVars, consVars>>

\* Some(record) and Some(scattering): the call recurses with the scattered ray
\* and depth - 1, its result to be multiplied with the attenuation
ColourScatter ==
    /\ rcpc = "hit"
    /\ rc_record.some
    /\ \E in_sphere \in random_in_unit_sphere, float \in random_float :
          /\ ExactScatter(rc_record.val.material, rc_ray, rc_record.val, in_sphere, float)
          /\ Recurse(scatter(rc_record.val.material, rc_ray, rc_record.val, in_sphere, float))
    /\ rc_depth' = depth_minus_one(rc_depth)
    /\ rc_scatters' = rc_scatters + 1
    /\ rcpc' = "call"
    /\ UNCHANGED <<rc_world, rc_call, rc_record, rc_colour, rc_leaf, rc_hits>>
    /\ UNCHANGED <<aabbVars, surVars, bvhVars, closerVars, boxVars, hitVars, scatVars, crossVars, travVars, consVars>>

\* Some(record) and scatter returned None: return Color::new(0.0, 0.0, 0.0)
ColourAbsorb ==
    /\ rcpc = "hit"
    /\ rc_record.some
    /\ \E in_sphere \in random_in_unit_sphere, float \in random_float :
          /\ ExactScatter(rc_record.val.material, rc_ray, rc_record.val, in_sphere, float)
          /\ ~scatter(rc_record.val.material, rc_ray, rc_record.val, in_sphere, float).some
    /\ Return(V(0, 0, 0), "absorbed")
    /\ rc_scatters' = rc_scatters + 1
    /\ UNCHANGED rc_hits
    /\ UNCHANGED <<aabbVars, surVars, bvhVars, closerVars, boxVars, hitVars, scatVars, crossVars, travVars, consVars>>

\* the ray hits nothing: the background gradient
ColourMiss ==
    /\ rcpc = "hit"
    /\ ~rc_record.some
    /\ IsSquare(length_squared(rc_ray.direction))
    /\ Return(miss_colour(rc_ray), "miss")
    /\ UNCHANGED <<rc_hits, rc_scatters>>
    /\ UNCHANGED <<aabbVars, surVars, bvhVars, closerVars, boxVars, hitVars, scatVars, crossVars, travVars, consVars>>

NextColour == ColourDepth \/ ColourHit \/ ColourScatter \/ ColourAbsorb \/ ColourMiss

SpecColour == InitColour /\ [][NextColour]_vars

\* C14: ray_colour(ray, world, 0) returns black (0, 0, 0) for every ray and
\* every scene, without a call of world.hit or of a material's scatter.
C14_DepthZeroBlack ==
    (rcpc = "done" /\ rc_call.depth = 0) =>
        /\ rc_colour = V(0, 0, 0)
        /\ rc_hits = 0
        /\ rc_scatters = 0

\* C14 witness: depth 0 with a ray that would hit the sphere head-on
C14_Witness ==
    /\ rcpc = "done"
    /\ rc_call.depth = 0
    /\ rc_call.ray = Ray_new(V(0, 0, -3), V(0, 0, 1))
    /\ Len(rc_world.objects) = 1
    /\ rc_leaf = "depth"
    /\ rc_colour = V(0, 0, 0)

\* the outermost call found that the ray hits nothing
MissedAtOnce == rcpc = "done" /\ rc_leaf = "miss" /\ rc_scatters = 0

\* the colour is the blend (1 - t) * white + t * sky-blue
IsBlend(colour, t) ==
    equal_to(colour, Vec3_add(Vec3_scale(V(1, 1, 1), FSub(F(1), t)),
                              Vec3_scale(Vec3_new(Q(1, 2), Q(7, 10), F(1)), t)))

\* the t of a blend, read from its red component 1 - t/2
BlendOf(colour) == FMul(F(2), FSub(F(1), colour.x))

\* c2 is closer to sky-blue (0.5, 0.7, 1.0) than c1
CloserToBlue(c2, c1) ==
    /\ FLt(FSub(c2.x, Q(1, 2)), FSub(c1.x, Q(1, 2)))
    /\ FLt(FSub(c2.y, Q(7, 10)), FSub(c1.y, Q(7, 10)))
    /\ FEq(c2.z, F(1)) /\ FEq(c1.z, F(1))

\* the rays of higher normalized Y get a colour closer to sky-blue than colour
MonotonicInY(colour) ==
    \A other \in ColourRays :
        FGt(unit_vector(other.direction).y, unit_vector(rc_call.ray.direction).y)
            => CloserToBlue(miss_colour(other), colour)

\* C15 as stated: for every ray that hits nothing (depth > 0) ray_colour
\* returns a blend of white and sky-blue strictly between the two endpoint
\* colours, monotonic in the Y component of the normalized direction.
C15_StrictlyBetween ==
    MissedAtOnce =>
        /\ IsBlend(rc_colour, BlendOf(rc_colour))
        /\ FLt(F(0), BlendOf(rc_colour)) /\ FLt(BlendOf(rc_colour), F(1))
        /\ MonotonicInY(rc_colour)

\* C15 amended: for every ray that hits nothing (depth > 0) ray_colour
\* returns the blend (1 - t) * white + t * sky-blue with t = 0.5 * (y + 1), y
\* the Y component of the normalized direction: between the two endpoint
\* colours, the endpoints included (white exactly for a ray straight down,
\* sky-blue exactly for a ray straight up, strictly between for every other
\* ray), and monotonic in y (larger y gives a colour closer to sky-blue).
C15_BetweenInclusive ==
    MissedAtOnce =>
        LET t == BlendOf(rc_colour)
            y == unit_vector(rc_call.ray.direction).y
        IN  /\ IsBlend(rc_colour, t)
            /\ FEq(t, FMul(Q(1, 2), FAdd(y, F(1))))
            /\ FLe(F(0), t) /\ FLe(t, F(1))
            /\ FEq(t, F(0)) <=> FEq(y, F(-1))
            /\ FEq(t, F(1)) <=> FEq(y, F(1))
            /\ MonotonicInY(rc_colour)

\* C15 witness: a ray straight up that hits nothing is coloured sky-blue exactly
C15_Witness ==
    /\ MissedAtOnce
    /\ rc_call.ray.direction = V(0, 1, 0)
    /\ Len(rc_world.objects) = 1
    /\ equal_to(rc_colour, Vec3_new(Q(1, 2), Q(7, 10), F(1)))

\* what every step of ray_colour does: the call moves on, from its head to
\* the result of world.hit, and from there into the next call or to its return
ColourAdvance ==
    /\ rcpc \in {"call", "hit"}
    /\ rcpc' \in {"call", "hit", "done"} \ {rcpc}
    /\ UNCHANGED <<aabbVars, surVars, bvhVars, closerVars, boxVars, hitVars, scatVars, crossVars, travVars, consVars>>

\* a call at its head or at the result of world.hit takes its next step: the
\* program is sequential, world.hit is a loop over a finite list, and every
\* draw of random_in_unit_sphere and random_float returns. A run that ends
\* where a square root is no fraction is no run of the program.
SpecColourLive == SpecColour /\ WF_rcpc(ColourAdvance)

\* C26: every ray_colour(ray, world, d) returns; every recursive call is made
\* at a depth of at least 1 and passes depth - 1, so the depth is never below
\* 0; and one primary ray causes at most d calls of scatter and at most d + 1
\* nested ray_colour calls.
C26_ColourTerminates ==
    /\ <>(rcpc = "done")
    /\ [][(rcpc = "hit" /\ rcpc' = "call") =>
             (rc_depth >= 1 /\ rc_depth' = rc_depth - 1)]_vars
    /\ [](/\ rc_depth >= 0
          /\ rc_scatters <= rc_call.depth
          /\ rc_hits <= rc_call.depth
          /\ Len(rc_pending) + 1 <= rc_call.depth + 1)

\* C26 witness: two facing mirrors have used the whole budget: MaxDepth
\* scatterings, and the innermost call returned at depth 0
C26_Witness ==
    /\ rcpc = "done"
    /\ rc_call.depth = MaxDepth
    /\ rc_scatters = MaxDepth
    /\ rc_depth = 0
    /\ rc_leaf = "depth"

\* the componentwise product of the attenuations along a path, from the
\* primary ray on
RECURSIVE AttenuationProduct(_)
AttenuationProduct(path) ==
    IF path = <<>> THEN V(1, 1, 1)
    ELSE Vec3_mul(AttenuationProduct(SubSeq(path, 1, Len(path) - 1)), path[Len(path)])

\* the colour the innermost call ends the path with in this step
TerminalColour ==
    IF rcpc = "hit" /\ ~rc_record.some THEN miss_colour(rc_ray) ELSE V(0, 0, 0)

\* this step is a recursion of ray_colour with a scattering of the material hit
ScatteredStep ==
    \E in_sphere \in random_in_unit_sphere, float \in random_float :
        /\ ExactScatter(rc_record.val.material, rc_ray, rc_record.val, in_sphere, float)
        /\ scatter(rc_record.val.material, rc_ray, rc_record.val, in_sphere, float).some
        /\ rc_ray' = scatter(rc_record.val.material, rc_ray, rc_record.val,
                             in_sphere, float).val.scattered
        /\ rc_pending' =
              Append(rc_pending, scatter(rc_record.val.material, rc_ray, rc_record.val,
                                         in_sphere, float).val.attenuation)
        /\ rc_depth' = rc_depth - 1

\* C27: for depth > 0 ray_colour intersects the scene over (0.001, +inf), so
\* every hit it works with has t > 0.001; on a hit whose material scatters it
\* recurses with the scattered ray and depth - 1 and multiplies the result by
\* the attenuation; on a hit whose material absorbs it returns black; on a
\* miss the background gradient. The colour returned for the primary ray is
\* the componentwise product of the attenuations along the path times the
\* colour the path ends with.
C27_PathProduct ==
    /\ []((rcpc = "hit") =>
            /\ rc_depth > 0
            /\ rc_record = HittableList_hit(rc_world, rc_ray, Q(1, 1000), PInf)
            /\ rc_record.some => FGt(rc_record.val.t, Q(1, 1000)))
    /\ [][(rcpc = "hit" /\ rcpc' = "call") => (rc_record.some /\ ScatteredStep)]_vars
    /\ [][(rcpc = "hit" /\ rcpc' = "done" /\ rc_record.some) =>
             (rc_leaf' = "absorbed" /\ equal_to(rc_colour', V(0, 0, 0)))]_vars
    /\ [][(rcpc # "done" /\ rcpc' = "done") =>
             equal_to(rc_colour', Vec3_mul(AttenuationProduct(rc_pending), TerminalColour))]_vars

\* C27 witness: the primary ray was scattered and the scattered ray hit
\* nothing: the colour returned is the background of the scattered ray
\* darkened by the attenuation
C27_Witness ==
    /\ rcpc = "done"
    /\ rc_leaf = "miss"
    /\ rc_scatters >= 1
    /\ rc_call.ray # rc_ray
    /\ ~equal_to(rc_colour, miss_colour(rc_ray))
    /\ FLt(rc_colour.x, miss_colour(rc_ray).x)

-----------------------------------------------------------------------------
(* traversals of one tree: BVH::hit calls that run at the same time, each    *)
(* taking one step of its own call at a time, and a BVH::bounding_box call   *)

\* the traversals running at the same time
MaxTraversals == 2

Traversals == 1..MaxTraversals

\* the lists the tree is built from: two and three unit spheres, and a single
\* sphere of radius 0, whose box no ray hits
TraverseScenes ==
    { <<Sphere_new(V(0, 0, 0), F(1), "a"), Sphere_new(V(2, 0, 0), F(1), "b")>>,
      <<Sphere_new(V(0, 0, 0), F(1), "a"), Sphere_new(V(0, 2, 0), F(1), "c")>>,
      <<Sphere_new(V(0, 0, 0), F(1), "a"), Sphere_new(V(2, 0, 0), F(1), "b"),
        Sphere_new(V(0, 2, 0), F(1), "c")>>,
      <<Sphere_new(V(0, 0, 0), F(0), "z")>> }

\* the rays: through a and b, through a and c, tangent to a and b at once,
\* through b alone
TraverseRays ==
    { Ray_new(V(-3, 0, 0), V(1, 0, 0)), Ray_new(V(0, -3, 0), V(0, 1, 0)),
      Ray_new(V(1, -3, 0), V(0, 1, 0)), Ray_new(V(2, 0, -3), V(0, 0, 1)) }

\* the frame of a BVH::hit call: self, t_min, t_max, how far the call has
\* got, and its locals left_hit and end
Frame(node, t_min, t_max) ==
    [node |-> node, t_min |-> t_min, t_max |-> t_max, stage |-> "enter",
     left_hit |-> None, end |-> t_max]

Top(stack) == stack[Len(stack)]

Pop(stack) == SubSeq(stack, 1, Len(stack) - 1)

\* the top frame with some fields changed
WithTop(stack, frame) == [stack EXCEPT ![Len(stack)] = frame]

InitTraverse ==
    /\ \E list \in TraverseScenes :
          tv_bvh \in { outcome \in BVH_construct(list, Time0, Time1) : outcome.kind # "panic" }
    /\ tv_ray \in [Traversals -> TraverseRays]
    /\ tv_stack = [i \in Traversals |-> <<Frame(tv_bvh, Q(1, 1000), PInf)>>]
    /\ tv_ret = [i \in Traversals |-> None]
    /\ tv_result = [i \in Traversals |-> None]
    /\ tv_pc = [i \in Traversals |-> "run"]
    /\ tv_box = None
    /\ AABBIdle
    /\ SurIdle
    /\ BVHIdle
    /\ CloserIdle
    /\ BoxIdle
    /\ HitIdle
    /\ ScatIdle
    /\ CrossIdle
    /\ ColourIdle
    /\ ConsIdle

\* the innermost call of traversal i returns value: to its caller, or, from
\* the outermost call, as the result of the traversal
ReturnHit(i, value) ==
    /\ tv_stack' = [tv_stack EXCEPT ![i] = Pop(tv_stack[i])]
    /\ tv_ret' = [tv_ret EXCEPT ![i] = value]
    /\ IF Len(tv_stack[i]) = 1
       THEN /\ tv_result' = [tv_result EXCEPT ![i] = value]
            /\ tv_pc' = [tv_pc EXCEPT ![i] = "done"]
       ELSE UNCHANGED <<tv_result, tv_pc>>
    /\ UNCHANGED <<tv_bvh, tv_ray, tv_box>>

\* traversal i goes on inside its innermost call with the frame changed
Continue(i, stack) ==
    /\ tv_stack' = [tv_stack EXCEPT ![i] = stack]
    /\ UNCHANGED <<tv_bvh, tv_ray, tv_ret, tv_result, tv_pc, tv_box>>

\* a Leaf that tests the box of its object before the object
leaf_hit_boxed(t, r, t_min, t_max) ==
    IF ~AABB_hit(Hittable_bounding_box(t, Time0, Time1).val, r, t_min, t_max) THEN None
    ELSE Hittable_hit(t, r, t_min, t_max)

\* BVH::Leaf(t) => t.hit(ray, t_min, t_max)
leaf_hit(t, r, t_min, t_max) ==
    Hittable_hit(t, r, t_min, t_max)

\* the Leaf arm of BVH::hit
HitLeaf(i) ==
    /\ tv_stack[i] # <<>>
    /\ Top(tv_stack[i]).stage = "enter"
    /\ Top(tv_stack[i]).node.kind = "Leaf"
    /\ ReturnHit(i, leaf_hit(Top(tv_stack[i]).node.obj, tv_ray[i],
                             Top(tv_stack[i]).t_min, Top(tv_stack[i]).t_max))
    /\ UNCHANGED <<aabbVars, surVars, bvhVars, closerVars, boxVars, hitVars, scatVars, crossVars, colourVars, consVars>>

\* if !bounding_box.hit(ray, t_min, t_max) { return None }
MissBox(i) ==
    /\ tv_stack[i] # <<>>
    /\ Top(tv_stack[i]).stage = "enter"
    /\ Top(tv_stack[i]).node.kind = "Branch"
    /\ ~AABB_hit(Top(tv_stack[i]).node.bounding_box, tv_ray[i],
                 Top(tv_stack[i]).t_min, Top(tv_stack[i]).t_max)
    /\ ReturnHit(i, None)
    /\ UNCHANGED <<aabbVars, surVars, bvhVars, closerVars, boxVars, hitVars, scatVars, crossVars, colourVars, consVars>>

\* the box is hit: left.hit(ray, t_min, t_max) is called
CallLeft(i) ==
    /\ tv_stack[i] # <<>>
    /\ Top(tv_stack[i]).stage = "enter"
    /\ Top(tv_stack[i]).node.kind = "Branch"
    /\ AABB_hit(Top(tv_stack[i]).node.bounding_box, tv_ray[i],
                Top(tv_stack[i]).t_min, Top(tv_stack[i]).t_max)
    /\ Continue(i, Append(WithTop(tv_stack[i], [Top(tv_stack[i]) EXCEPT !.stage = "left"]),
                          Frame(Top(tv_stack[i]).node.left,
                                Top(tv_stack[i]).t_min, Top(tv_stack[i]).t_max)))
    /\ UNCHANGED <<aabbVars, surVars, bvhVars, closerVars, boxVars, hitVars, scatVars, crossVars, colourVars, consVars>>

\* let left_hit = ..; let mut end = t_max; if let Some(hit) = &left_hit { end = hit.t; }
SetEnd(i) ==
    /\ tv_stack[i] # <<>>
    /\ Top(tv_stack[i]).stage = "left"
    /\ Continue(i, WithTop(tv_stack[i],
                   [Top(tv_stack[i]) EXCEPT
                       !.stage = "end",
                       !.left_hit = tv_ret[i],
                       !.end = IF tv_ret[i].some THEN tv_ret[i].val.t
                               ELSE Top(tv_stack[i]).t_max]))
    /\ UNCHANGED <<aabbVars, surVars, bvhVars, closerVars, boxVars, hitVars, scatVars, crossVars, colourVars, consVars>>

\* the end every traversal reads from the frame of the first traversal
end_of_first(i, stacks) ==
    IF stacks[1] # <<>> /\ Top(stacks[1]).stage = "end"
    THEN Top(stacks[1]).end
    ELSE Top(stacks[i]).end

\* the local end of the innermost call of traversal i
end_of(i, stacks) == Top(stacks[i]).end

\* right.hit(ray, t_min, end) is called
CallRight(i) ==
    /\ tv_stack[i] # <<>>
    /\ Top(tv_stack[i]).stage = "end"
    /\ Continue(i, Append(WithTop(tv_stack[i], [Top(tv_stack[i]) EXCEPT !.stage = "right"]),
                          Frame(Top(tv_stack[i]).node.right,
                                Top(tv_stack[i]).t_min, end_of(i, tv_stack))))
    /\ UNCHANGED <<aabbVars, surVars, bvhVars, closerVars, boxVars, hitVars, scatVars, crossVars, colourVars, consVars>>

\* match (left_hit, right_hit): return the closer object hit
ReturnMatch(i) ==
    /\ tv_stack[i] # <<>>
    /\ Top(tv_stack[i]).stage = "right"
    /\ ReturnHit(i, closer_hit(Top(tv_stack[i]).left_hit, tv_ret[i]))
    /\ UNCHANGED <<aabbVars, surVars, bvhVars, closerVars, boxVars, hitVars, scatVars, crossVars, colourVars, consVars>>

\* BVH::bounding_box called on the tree while the traversals run
CallTreeBox ==
    /\ ~tv_box.some
    /\ tv_box' = BVH_bounding_box(tv_bvh, Time0, Time1)
    /\ UNCHANGED <<tv_bvh, tv_ray, tv_stack, tv_ret, tv_result, tv_pc>>
    /\ UNCHANGED <<aabbVars, surVars, bvhVars, closerVars, boxVars, hitVars, scatVars, crossVars, colourVars, consVars>>

NextTraverse ==
    \/ \E i \in Traversals :
          HitLeaf(i) \/ MissBox(i) \/ CallLeft(i) \/ SetEnd(i) \/ CallRight(i) \/ ReturnMatch(i)
    \/ CallTreeBox

SpecTraverse == InitTraverse /\ [][NextTraverse]_vars

\* C19: BVH::hit and BVH::bounding_box never modify the tree (its objects and
\* their materials included), and traversals interleaved in any order each
\* return what the same call returns when run alone.
C19_TraversalsIndependent ==
    /\ [](\A i \in Traversals :
            tv_pc[i] = "done" =>
                tv_result[i] = BVH_hit(tv_bvh, tv_ray[i], Q(1, 1000), PInf))
    /\ [][tv_bvh' = tv_bvh]_vars

\* C19 witness: the second traversal found a sphere and returned while the
\* first, with another ray, is inside a nested call and the tree's box has
\* been asked for
C19_Witness ==
    /\ tv_pc[1] = "run" /\ tv_pc[2] = "done"
    /\ Len(tv_stack[1]) >= 2
    /\ tv_ray[1] # tv_ray[2]
    /\ tv_result[2].some
    /\ tv_box.some

\* the innermost call of traversal i has just been entered
Entered(i) == tv_stack[i] # <<>> /\ Top(tv_stack[i]).stage = "enter"

\* the innermost call of traversal i returns value in this step
Returns(i, value) ==
    /\ tv_stack'[i] = Pop(tv_stack[i])
    /\ tv_ret'[i] = value

\* C22: a BVH::hit call on a Branch whose cached box the ray misses over
\* (t_min, t_max) returns no hit in its first step, without a call on either
\* child; a call on a Leaf returns in its first step exactly what the hit of
\* the wrapped object returns for the same ray and interval, whether or not
\* the ray hits the box of the object.
C22_MissedBoxAndLeaf ==
    [][\A i \in Traversals :
          (Entered(i) /\ tv_stack'[i] # tv_stack[i]) =>
              /\ (/\ Top(tv_stack[i]).node.kind = "Branch"
                  /\ ~AABB_hit(Top(tv_stack[i]).node.bounding_box, tv_ray[i],
                               Top(tv_stack[i]).t_min, Top(tv_stack[i]).t_max))
                 => Returns(i, None)
              /\ Top(tv_stack[i]).node.kind = "Leaf"
                 => Returns(i, Hittable_hit(Top(tv_stack[i]).node.obj, tv_ray[i],
                                            Top(tv_stack[i]).t_min, Top(tv_stack[i]).t_max))]_vars

\* C22 witness: the first traversal missed the box of the root Branch and
\* returned no hit at once, while the second, with another ray, has a hit
\* back from the Leaf on the left
C22_Witness ==
    /\ tv_bvh.kind = "Branch"
    /\ ~AABB_hit(tv_bvh.bounding_box, tv_ray[1], Q(1, 1000), PInf)
    /\ tv_pc[1] = "done" /\ ~tv_result[1].some
    /\ Len(tv_stack[2]) = 1 /\ Top(tv_stack[2]).stage = "left"
    /\ tv_bvh.left.kind = "Leaf"
    /\ tv_ret[2].some

\* a Leaf returned the hit of its object although the ray misses the box of
\* the object
C22_LeafWithoutBoxTest ==
    /\ tv_bvh.kind = "Leaf"
    /\ tv_pc[1] = "done" /\ tv_result[1].some
    /\ ~AABB_hit(Hittable_bounding_box(tv_bvh.obj, Time0, Time1).val, tv_ray[1], Q(1, 1000), PInf)

-----------------------------------------------------------------------------
(* BVH::construct taken one call at a time: a frame for every nested call    *)

\* the frame of a BVH::construct call: its list, how far the call has got,
\* and its local right
ConsFrame(list) == [list |-> list, stage |-> "enter", right |-> None]

\* a drain that leaves out the first object of the second half
drain_after_midpoint(sorted, span) == SubSeq(sorted, span \div 2 + 2, span)

\* list.drain(span / 2..).collect(): the objects from the midpoint on
drain(sorted, span) == SubSeq(sorted, span \div 2 + 1, span)

\* what is left in list when the second half has been drained
drained(sorted, span) == SubSeq(sorted, 1, span \div 2)

\* the lists BVH::construct is called with: of two unit spheres, apart on x
\* and level on y and z, and of an empty HittableList, which has no box
ConsLists ==
    UNION { [1..n -> { Sphere_new(V(0, 0, 0), F(1), "a"),
                       Sphere_new(V(2, 0, 0), F(1), "b"),
                       HittableList_new(<<>>) }] : n \in 0..MaxObjects }

InitConstruct ==
    /\ k_list \in ConsLists
    /\ k_stack = <<ConsFrame(k_list)>>
    /\ k_ret = None
    /\ k_result = None
    /\ k_calls = 1
    /\ kpc = "run"
    /\ AABBIdle
    /\ SurIdle
    /\ BVHIdle
    /\ CloserIdle
    /\ BoxIdle
    /\ HitIdle
    /\ ScatIdle
    /\ CrossIdle
    /\ ColourIdle
    /\ TravIdle

\* a panic unwinds every nested call
ConsPanic(msg) ==
    /\ k_stack' = <<>>
    /\ k_result' = Panic(msg)
    /\ kpc' = "panicked"
    /\ UNCHANGED <<k_list, k_ret, k_calls>>

\* the innermost call returns tree: to its caller, or, from the outermost
\* call, as the result
ConsReturn(tree) ==
    /\ k_stack' = Pop(k_stack)
    /\ k_ret' = tree
    /\ IF Len(k_stack) = 1
       THEN k_result' = tree /\ kpc' = "done"
       ELSE UNCHANGED <<k_result, kpc>>
    /\ UNCHANGED <<k_list, k_calls>>

\* a nested call is entered with list, the frame of the caller changed to top
ConsCall(top, list) ==
    /\ k_stack' = Append(WithTop(k_stack, top), ConsFrame(list))
    /\ k_calls' = k_calls + 1
    /\ UNCHANGED <<k_list, k_ret, k_result, kpc>>

\* if span == 0 { panic!(..) }
ConsEmpty ==
    /\ kpc = "run"
    /\ Top(k_stack).stage = "enter"
    /\ Len(Top(k_stack).list) = 0
    /\ ConsPanic("Cannot have 0 objects in list during BVH construction")
    /\ UNCHANGED <<aabbVars, surVars, bvhVars, closerVars, boxVars, hitVars, scatVars, crossVars, colourVars, travVars>>

\* if span == 1 { return BVH::Leaf(list.pop().unwrap()) }
ConsLeaf ==
    /\ kpc = "run"
    /\ Top(k_stack).stage = "enter"
    /\ Len(Top(k_stack).list) = 1
    /\ ConsReturn(Leaf(Top(k_stack).list[1]))
    /\ UNCHANGED <<aabbVars, surVars, bvhVars, closerVars, boxVars, hitVars, scatVars, crossVars, colourVars, travVars>>

\* the comparator of list.sort_by meets an object without a bounding box
ConsNoBox ==
    /\ kpc = "run"
    /\ Top(k_stack).stage = "enter"
    /\ Len(Top(k_stack).list) >= 2
    /\ \E i \in 1..Len(Top(k_stack).list) :
          ~Hittable_bounding_box(Top(k_stack).list[i], Time0, Time1).some
    /\ ConsPanic("No bounding box in BVH node")
    /\ UNCHANGED <<aabbVars, surVars, bvhVars, closerVars, boxVars, hitVars, scatVars, crossVars, colourVars, travVars>>

\* the axis drawn at the head of the call is used: list.sort_by(..)
ConsSort ==
    /\ kpc = "run"
    /\ Top(k_stack).stage = "enter"
    /\ Len(Top(k_stack).list) >= 2
    /\ \A i \in 1..Len(Top(k_stack).list) :
          Hittable_bounding_box(Top(k_stack).list[i], Time0, Time1).some
    /\ \E axis \in random_int_in_range(0, 3) :
          k_stack' = WithTop(k_stack,
                         [Top(k_stack) EXCEPT
                             !.stage = "sorted",
                             !.list = sort_by(Top(k_stack).list, axis, Time0, Time1)])
    /\ UNCHANGED <<k_list, k_ret, k_result, k_calls, kpc>>
    /\ UNCHANGED <<aabbVars, surVars, bvhVars, closerVars, boxVars, hitVars, scatVars, crossVars, colourVars, travVars>>

\* the call for right is entered on the drained second half
ConsRight ==
    /\ kpc = "run"
    /\ Top(k_stack).stage = "sorted"
    /\ ConsCall([Top(k_stack) EXCEPT
                    !.stage = "right",
                    !.list = drained(Top(k_stack).list, Len(Top(k_stack).list))],
                drain(Top(k_stack).list, Len(Top(k_stack).list)))
    /\ UNCHANGED <<aabbVars, surVars, bvhVars, closerVars, boxVars, hitVars, scatVars, crossVars, colourVars, travVars>>

\* right is bound and the call for left entered on what is left of list
ConsLeft ==
    /\ kpc = "run"
    /\ Top(k_stack).stage = "right"
    /\ ConsCall([Top(k_stack) EXCEPT !.stage = "left", !.right = k_ret],
                Top(k_stack).list)
    /\ UNCHANGED <<aabbVars, surVars, bvhVars, closerVars, boxVars, hitVars, scatVars, crossVars, colourVars, travVars>>

\* left is bound, the two boxes are joined and the Branch returned
ConsBranch ==
    /\ kpc = "run"
    /\ Top(k_stack).stage = "left"
    /\ IF construct_branch(k_ret, Top(k_stack).right, Time0, Time1).kind = "panic"
       THEN ConsPanic("No bounding box in BVH node")
       ELSE ConsReturn(construct_branch(k_ret, Top(k_stack).right, Time0, Time1))
    /\ UNCHANGED <<aabbVars, surVars, bvhVars, closerVars, boxVars, hitVars, scatVars, crossVars, colourVars, travVars>>

NextConstruct ==
    ConsEmpty \/ ConsLeaf \/ ConsNoBox \/ ConsSort \/ ConsRight \/ ConsLeft \/ ConsBranch

SpecConstruct == InitConstruct /\ [][NextConstruct]_vars

\* the orders a list of n objects can be put in
Orders(n) == { p \in [1..n -> 1..n] : \A i, j \in 1..n : p[i] = p[j] => i = j }

\* what every ConsSort step does, whatever the axis drawn: the list of the
\* innermost call is put in some order
ConsReorder ==
    /\ kpc = "run"
    /\ Top(k_stack).stage = "enter"
    /\ Len(Top(k_stack).list) >= 2
    /\ \A i \in 1..Len(Top(k_stack).list) :
          Hittable_bounding_box(Top(k_stack).list[i], Time0, Time1).some
    /\ \E p \in Orders(Len(Top(k_stack).list)) :
          k_stack' = WithTop(k_stack,
                         [Top(k_stack) EXCEPT
                             !.stage = "sorted",
                             !.list = [i \in 1..Len(Top(k_stack).list) |->
                                          Top(k_stack).list[p[i]]]])
    /\ UNCHANGED <<k_list, k_ret, k_result, k_calls, kpc>>
    /\ UNCHANGED <<aabbVars, surVars, bvhVars, closerVars, boxVars, hitVars, scatVars, crossVars, colourVars, travVars>>

\* a call that can take its next step takes it: the program is sequential.
\* The sort is a step that is taken too; its fairness is stated on
\* ConsReorder, which is enabled exactly when ConsSort is and is what each
\* ConsSort step is.
SpecConstructLive ==
    /\ SpecConstruct
    /\ WF_consVars(ConsEmpty \/ ConsLeaf \/ ConsNoBox \/ ConsRight \/ ConsLeft \/ ConsBranch)
    /\ WF_consVars(ConsReorder)

\* the number of Branch nodes of a tree
RECURSIVE BranchCount(_)
BranchCount(node) ==
    IF node.kind = "Branch" THEN 1 + BranchCount(node.left) + BranchCount(node.right) ELSE 0

\* the objects wrapped by the leaves of a tree, from left to right
RECURSIVE LeavesOf(_)
LeavesOf(node) ==
    IF node.kind = "Branch" THEN LeavesOf(node.left) \o LeavesOf(node.right)
    ELSE <<node.obj>>

\* how often obj occurs in a sequence
Occurrences(seq, obj) == Cardinality({ i \in 1..Len(seq) : seq[i] = obj })

\* the list given to BVH::construct holds at least one object and every
\* object has a bounding box
BoxedInput ==
    /\ Len(k_list) >= 1
    /\ \A i \in 1..Len(k_list) : Hittable_bounding_box(k_list[i], Time0, Time1).some

\* C25: for every list of n >= 1 objects that all have bounding boxes,
\* BVH::construct terminates and returns a tree of exactly n Leaf nodes and
\* n - 1 Branch nodes whose leaves wrap every input object exactly as often
\* as the list holds it; a list of one object yields a single Leaf.
C25_ConstructTerminatesStrictTree ==
    /\ BoxedInput ~> (kpc = "done")
    /\ []((BoxedInput /\ kpc = "done") =>
            /\ LeafCount(k_result) = Len(k_list)
            /\ BranchCount(k_result) = Len(k_list) - 1
            /\ \A i \in 1..Len(k_list) :
                  Occurrences(LeavesOf(k_result), k_list[i]) = Occurrences(k_list, k_list[i])
            /\ Len(k_list) = 1 => k_result = Leaf(k_list[1])
            /\ k_calls = 2 * Len(k_list) - 1)

\* C25 witness: the call on a list of MaxObjects boxed objects, two of them
\* the same, has returned a tree
C25_Witness ==
    /\ kpc = "done"
    /\ BoxedInput
    /\ Len(k_list) = MaxObjects
    /\ k_list[1] = k_list[2]
    /\ k_list[1] # k_list[3]
    /\ k_result.kind = "Branch"

====
